---- MODULE Spec2Model ----
(***************************************************************************)
(* Model of fluxo: the OpenAPI generator (swagger.go), the App that feeds  *)
(* it (app.go: route methods, WithSwagger, EnableSwaggerUI), the closures  *)
(* of Handle and Middleware that serve a request (handler.go) and the      *)
(* validation messages (validation.go).                                    *)
(*                                                                         *)
(* Go strings whose characters the code inspects (struct tags, route       *)
(* paths) are sequences of one-character strings, so that strings.Split,   *)
(* strings.Contains and strings.HasPrefix are computed, not assumed.       *)
(* A nil pointer is the empty sequence, a non-nil pointer a sequence of    *)
(* length one.                                                             *)
(***************************************************************************)
EXTENDS Integers, Sequences, FiniteSets, TLC

VARIABLES
  paths,      \* sg.spec.Paths: route path -> PathItem
  schemas,    \* sg.spec.Components.Schemas: shape name -> Schema
  handlers,   \* App.handlers: <<method, path>> -> handlerInfo
  last,       \* the call that ran last, its arguments, outcome and result
  prev,       \* the AddEndpoint call before the last AddEndpoint call
  doc,        \* the document returned by the last Generate, <<>> if none
  ncalls,     \* number of calls made so far
  shape,      \* request shape under test (specification SpecShapes)
  routePath,  \* route path under test (specification SpecShapes)
  inflight,   \* per goroutine, the call it is inside and where it is in it
  translationRegistry, \* validation.go: language -> rule tag -> message
  ctx,        \* the gin.Context of the request answered last (specification SpecRequests)
  enableSwagger, \* App.enableSwagger; App.swagger is non-nil exactly when it is TRUE
  router      \* App.router: <<method, path>> -> the handler gin holds for the route

vars == <<paths, schemas, handlers, last, prev, doc, ncalls, shape, routePath, inflight,
          translationRegistry, ctx, enableSwagger, router>>

\* Longest chain of nested generateStructSchema frames the goroutine stack
\* holds.  Every acyclic shape of TypeTable nests less deep than this.
MaxDepth == 4
\* Number of calls made on one generator in a behaviour of Spec.
MaxCalls == 4
\* Number of fields of a shape drawn in SpecShapes.
MaxFields == 2
\* Number of goroutines that call the generator in SpecConcurrent.
NumGoroutines == 2
\* Number of RegisterTranslation calls in a behaviour of SpecRequests.
MaxTranslations == 2

(***************************************************************************)
(* Strings                                                                 *)
(***************************************************************************)
RECURSIVE SplitFrom(_, _, _, _)
SplitFrom(s, sep, i, cur) ==
  IF i > Len(s) THEN <<cur>>
  ELSE IF s[i] = sep THEN <<cur>> \o SplitFrom(s, sep, i + 1, <<>>)
  ELSE SplitFrom(s, sep, i + 1, Append(cur, s[i]))

\* strings.Split(s, sep) for a one-character separator
Split(s, sep) == SplitFrom(s, sep, 1, <<>>)

\* strings.Contains(s, sub)
Contains(s, sub) ==
  \E i \in 1..(Len(s) - Len(sub) + 1) : SubSeq(s, i, i + Len(sub) - 1) = sub

\* strings.HasPrefix(s, ":")
HasColonPrefix(s) == Len(s) >= 1 /\ s[1] = ":"

\* strings.TrimPrefix(s, ":")
TrimColonPrefix(s) == IF HasColonPrefix(s) THEN Tail(s) ELSE s

sDash == <<"-">>
sRequired == <<"r", "e", "q", "u", "i", "r", "e", "d">>
sEmail == <<"e", "m", "a", "i", "l">>
sRequiredWithout == sRequired \o <<"_", "w", "i", "t", "h", "o", "u", "t", "=", "Q">>
sRequiredEmail == sRequired \o <<",">> \o sEmail
sValidationPrefix == <<"V", "a", "l", "i", "d", "a", "t", "i", "o", "n", ":", " ">>
sOmitempty == <<",", "o", "m", "i", "t", "e", "m", "p", "t", "y">>
sCommaX == <<",", "x">>
sA == <<"a">>
sB == <<"b">>
sQ == <<"q">>
sId == <<"i", "d">>
sName == <<"n", "a", "m", "e">>
sNext == <<"n", "e", "x", "t">>
sData == <<"d", "a", "t", "a">>
sPage == <<"p", "a", "g", "e">>
sLimit == <<"l", "i", "m", "i", "t">>
sMsg == <<"m", "s", "g">>
sOk == <<"o", "k">>
sFile == <<"f", "i", "l", "e">>
sFiles == <<"f", "i", "l", "e", "s">>
sItems == <<"i", "t", "e", "m", "s">>
sPeer == <<"p", "e", "e", "r">>
sXToken == <<"X", "-", "T", "o", "k", "e", "n">>
sAuthorization == <<"A", "u", "t", "h", "o", "r", "i", "z", "a", "t", "i", "o", "n">>
sStatus == <<"s", "t", "a", "t", "u", "s">>
sMessage == <<"m", "e", "s", "s", "a", "g", "e">>

\* route paths
pMerge == <<"/", "m">>
pUsersId == <<"/", "u", "/", ":", "i", "d">>

(***************************************************************************)
(* reflect.Type descriptors                                                *)
(***************************************************************************)
\* a struct field: Go name, id of its type, and its tags
Fld(name, type, json, form, uri, header, validate) ==
  [name |-> name, type |-> type, json |-> json, form |-> form, uri |-> uri,
   header |-> header, validate |-> validate]

Prim(kind) ==
  [kind |-> kind, name |-> kind, pkg |-> "", str |-> kind, elem |-> "", fields |-> <<>>]

PtrTo(elem, str) ==
  [kind |-> "ptr", name |-> "", pkg |-> "", str |-> str, elem |-> elem, fields |-> <<>>]

SliceOf(elem, str) ==
  [kind |-> "slice", name |-> "", pkg |-> "", str |-> str, elem |-> elem, fields |-> <<>>]

Struct(name, pkg, str, fields) ==
  [kind |-> "struct", name |-> name, pkg |-> pkg, str |-> str, elem |-> "", fields |-> fields]

\* the nil reflect.Type (reflect.TypeOf of a nil interface, or an absent shape)
NilType ==
  [kind |-> "nil", name |-> "", pkg |-> "", str |-> "", elem |-> "", fields |-> <<>>]

NoTag == <<>>

TypeTable ==
  [ string |-> Prim("string"),
    int |-> Prim("int"),
    int32 |-> Prim("int32"),
    uint |-> Prim("uint"),
    uint64 |-> Prim("uint64"),
    float32 |-> Prim("float32"),
    float64 |-> Prim("float64"),
    bool |-> Prim("bool"),
    H |-> [kind |-> "map", name |-> "H", pkg |-> "github.com/gin-gonic/gin",
           str |-> "gin.H", elem |-> "", fields |-> <<>>],
    FileHeader |-> Struct("FileHeader", "mime/multipart", "multipart.FileHeader",
                     <<Fld("Filename", "string", NoTag, NoTag, NoTag, NoTag, NoTag)>>),
    PtrFileHeader |-> PtrTo("FileHeader", "*multipart.FileHeader"),
    SlicePtrFileHeader |-> SliceOf("PtrFileHeader", "[]*multipart.FileHeader"),
    SliceFileHeader |-> SliceOf("FileHeader", "[]multipart.FileHeader"),
    PtrString |-> PtrTo("string", "*string"),
    PtrInt |-> PtrTo("int", "*int"),
    SliceString |-> SliceOf("string", "[]string"),
    Item |-> Struct("Item", "fluxo", "fluxo.Item",
               <<Fld("Name", "string", sName, NoTag, NoTag, NoTag, NoTag)>>),
    SliceItem |-> SliceOf("Item", "[]fluxo.Item"),
    Res |-> Struct("Res", "fluxo", "fluxo.Res",
               <<Fld("Msg", "string", sMsg, NoTag, NoTag, NoTag, NoTag),
                 Fld("Items", "SliceItem", sItems, NoTag, NoTag, NoTag, NoTag)>>),
    Node |-> Struct("Node", "fluxo", "fluxo.Node",
               <<Fld("Name", "string", sName, NoTag, NoTag, NoTag, NoTag),
                 Fld("Next", "PtrNode", sNext, NoTag, NoTag, NoTag, NoTag)>>),
    PtrNode |-> PtrTo("Node", "*fluxo.Node"),
    Ping |-> Struct("Ping", "fluxo", "fluxo.Ping",
               <<Fld("Peer", "PtrPong", sPeer, NoTag, NoTag, NoTag, NoTag)>>),
    PtrPing |-> PtrTo("Ping", "*fluxo.Ping"),
    Pong |-> Struct("Pong", "fluxo", "fluxo.Pong",
               <<Fld("Peer", "PtrPing", sPeer, NoTag, NoTag, NoTag, NoTag)>>),
    PtrPong |-> PtrTo("Pong", "*fluxo.Pong"),
    QueryReq |-> Struct("QueryReq", "fluxo", "fluxo.QueryReq",
               <<Fld("Page", "int", NoTag, sPage, NoTag, NoTag, NoTag)>>),
    HeaderReq |-> Struct("HeaderReq", "fluxo", "fluxo.HeaderReq",
               <<Fld("Token", "string", NoTag, NoTag, NoTag, sAuthorization, sRequired)>>),
    BodyReq |-> Struct("BodyReq", "fluxo", "fluxo.BodyReq",
               <<Fld("Data", "string", sData, NoTag, NoTag, NoTag, NoTag)>>),
    PtrBodyReq |-> PtrTo("BodyReq", "*fluxo.BodyReq"),
    GetReq |-> Struct("GetReq", "fluxo", "fluxo.GetReq",
               <<Fld("ID", "string", NoTag, NoTag, sId, NoTag, NoTag),
                 Fld("Limit", "int", NoTag, sLimit, NoTag, NoTag, NoTag)>>),
    AnonName |-> Struct("", "", "struct { Name string \"json:\\\"name\\\"\" }",
               <<Fld("Name", "string", sName, NoTag, NoTag, NoTag, NoTag)>>),
    AnonOK |-> Struct("", "", "struct { OK bool \"json:\\\"ok\\\"\" }",
               <<Fld("OK", "bool", sOk, NoTag, NoTag, NoTag, NoTag)>>) ]

TypeIds == DOMAIN TypeTable

\* the descriptor of a type id; "nil" is the nil reflect.Type
TypeOf(id) == IF id = "nil" THEN NilType ELSE TypeTable[id]

(***************************************************************************)
(* Schema                                                                  *)
(***************************************************************************)
EmptyMap == <<>>

\* Schema{Type: type, Format: format}
Sch(type, format) ==
  [type |-> type, properties |-> EmptyMap, required |-> <<>>, items |-> <<>>,
   format |-> format, description |-> <<>>]

\* m[k] = v on a Go map
MapPut(m, k, v) == [x \in (DOMAIN m) \cup {k} |-> IF x = k THEN v ELSE m[x]]

\* outcome of a call that may panic or exhaust the stack
Outcome(ret, reg, status) == [ret |-> ret, reg |-> reg, status |-> status]

IntKinds == {"int", "int8", "int16", "int32", "int64"}
FloatKinds == {"float32", "float64"}

isFileHeader(t) == t.pkg = "mime/multipart" /\ t.name = "FileHeader"

\* the name a field gets in a struct schema: json tag first, then form tag
StructFieldName(f) ==
  IF f.json # <<>> /\ f.json # sDash THEN Split(f.json, ",")[1]
  ELSE IF f.form # <<>> /\ f.form # sDash THEN Split(f.form, ",")[1]
  ELSE <<>>

\* the validation part of the field loop: description, format
WithValidation(fieldSchema, validateTag) ==
  IF validateTag # <<>>
  THEN [fieldSchema EXCEPT
          !.description = sValidationPrefix \o validateTag,
          !.format = IF Contains(validateTag, sEmail) THEN "email" ELSE @]
  ELSE fieldSchema

RECURSIVE generateSchema(_, _, _)
RECURSIVE generateStructSchema(_, _, _)
RECURSIVE structFields(_, _, _, _, _)

\* the field loop of generateStructSchema, from field i on
structFields(t, i, schema, reg, d) ==
  IF i > Len(t.fields) THEN Outcome(schema, reg, "ok")
  ELSE
    LET f == t.fields[i]
        fieldName == StructFieldName(f)
    IN IF fieldName = <<>> THEN structFields(t, i + 1, schema, reg, d)
       ELSE
         LET rest(r) ==
               IF r.status # "ok" THEN r
               ELSE
                 LET fieldSchema == WithValidation(r.ret, f.validate)
                     req == IF f.validate # <<>> /\ Contains(f.validate, sRequired)
                            THEN Append(schema.required, fieldName)
                            ELSE schema.required
                     next == [schema EXCEPT
                                !.required = req,
                                !.properties = MapPut(@, fieldName, fieldSchema)]
                 IN structFields(t, i + 1, next, r.reg, d)
         IN rest(generateSchema(TypeOf(f.type), reg, d))

\* the registry key of a struct type
SchemaName(t) == IF t.name = "" THEN "Anonymous" ELSE t.name

\* a lookup that never finds the name: every synthesis recomputes the schema
\* and stores it again
Cached_Never(reg, schemaName) == FALSE

\* the lookup that opens generateStructSchema
Cached(reg, schemaName) == schemaName \in DOMAIN reg

\* d is the number of generateStructSchema frames on the stack
generateStructSchema(t, reg, d) ==
  IF d > MaxDepth THEN Outcome(Sch("", ""), reg, "stack overflow")
  ELSE
    LET schemaName == SchemaName(t)
    IN IF Cached(reg, schemaName) THEN Outcome(reg[schemaName], reg, "ok")
       ELSE
         LET store(r) == IF r.status # "ok" THEN r
                         ELSE Outcome(r.ret, MapPut(r.reg, schemaName, r.ret), "ok")
         IN store(structFields(t, 1, Sch("object", ""), reg, d))

generateSchema(t0, reg, d) ==
  IF t0.kind = "nil" THEN Outcome(Sch("", ""), reg, "panic")
  ELSE
    LET t == IF t0.kind = "ptr" THEN TypeOf(t0.elem) ELSE t0
    IN IF isFileHeader(t) THEN Outcome(Sch("string", "binary"), reg, "ok")
       ELSE IF t.kind = "string" THEN Outcome(Sch("string", ""), reg, "ok")
       ELSE IF t.kind \in IntKinds THEN Outcome(Sch("integer", "int64"), reg, "ok")
       ELSE IF t.kind \in FloatKinds THEN Outcome(Sch("number", "double"), reg, "ok")
       ELSE IF t.kind = "bool" THEN Outcome(Sch("boolean", ""), reg, "ok")
       ELSE IF t.kind = "struct" THEN generateStructSchema(t, reg, d + 1)
       ELSE IF t.kind = "slice" THEN
         LET e == TypeOf(t.elem)
             it == IF e.kind = "ptr" THEN TypeOf(e.elem) ELSE e
         IN IF isFileHeader(it)
            THEN Outcome([Sch("array", "") EXCEPT !.items = <<Sch("string", "binary")>>], reg, "ok")
            ELSE Outcome([Sch("array", "") EXCEPT !.items = <<Sch("object", "")>>], reg, "ok")
       ELSE Outcome(Sch("object", ""), reg, "ok")

(***************************************************************************)
(* Content types and parameters                                            *)
(***************************************************************************)
\* the three flags detectSwaggerContentTypes collects over the fields
HasJSON(t) == \E i \in 1..Len(t.fields) : t.fields[i].json # <<>> /\ t.fields[i].json # sDash

HasForm(t) == \E i \in 1..Len(t.fields) : t.fields[i].form # <<>> /\ t.fields[i].form # sDash

HasFile(t) ==
  \E i \in 1..Len(t.fields) :
     \/ TypeOf(t.fields[i].type).str = "*multipart.FileHeader"
     \/ TypeOf(t.fields[i].type).str = "[]*multipart.FileHeader"

\* requestType.NumField() panics unless requestType is a struct
detectSwaggerContentTypes(t) ==
  IF t.kind = "nil" THEN [ret |-> <<"application/json">>, status |-> "ok"]
  ELSE IF t.kind # "struct" THEN [ret |-> <<>>, status |-> "panic"]
  ELSE IF HasFile(t) THEN [ret |-> <<"multipart/form-data">>, status |-> "ok"]
  ELSE IF HasForm(t) THEN
    [ret |-> <<"application/x-www-form-urlencoded">>
               \o (IF HasJSON(t) THEN <<"application/json">> ELSE <<>>),
     status |-> "ok"]
  ELSE IF HasJSON(t) THEN [ret |-> <<"application/json">>, status |-> "ok"]
  ELSE [ret |-> <<"application/json">>, status |-> "ok"]

RECURSIVE colonParts(_, _)
colonParts(parts, i) ==
  IF i > Len(parts) THEN <<>>
  ELSE (IF HasColonPrefix(parts[i]) THEN <<TrimColonPrefix(parts[i])>> ELSE <<>>)
       \o colonParts(parts, i + 1)

extractPathParameters(path) == colonParts(Split(path, "/"), 1)

contains(slice, item) == \E i \in 1..Len(slice) : slice[i] = item

Parameter(name, in, required, schema) ==
  [name |-> name, in |-> in, required |-> required, schema |-> schema]

\* paramOfField without the `continue` that ends the path branch: a field
\* with a path tag goes on to the form branch
paramOfField_NoContinue(f, pathParams, reg) ==
  LET uriName == IF f.uri # <<>> /\ f.uri # sDash THEN Split(f.uri, ",")[1] ELSE <<>>
      formName == IF f.form # <<>> /\ f.form # sDash THEN Split(f.form, ",")[1] ELSE <<>>
      required == f.validate # <<>> /\ Contains(f.validate, sRequired)
      pathPart(s) == IF uriName # <<>> THEN <<Parameter(uriName, "path", TRUE, s)>> ELSE <<>>
      formPart(s) == IF formName # <<>> /\ ~contains(pathParams, formName)
                     THEN <<Parameter(formName, "query", required, s)>> ELSE <<>>
      param(r) == IF r.status # "ok" THEN Outcome(<<>>, r.reg, r.status)
                  ELSE Outcome(pathPart(r.ret) \o formPart(r.ret), r.reg, "ok")
  IN param(generateSchema(TypeOf(f.type), reg, 0))

\* One iteration of the field loop of generateParameters: ret is what the
\* iteration appends to the parameter list (nothing or one entry).
paramOfField(f, pathParams, reg) ==
  IF f.uri # <<>> /\ f.uri # sDash THEN
    LET paramName == Split(f.uri, ",")[1]
    IN IF paramName = <<>> THEN Outcome(<<>>, reg, "ok")
       ELSE LET param(r) ==
                  IF r.status # "ok" THEN Outcome(<<>>, r.reg, r.status)
                  ELSE Outcome(<<Parameter(paramName, "path", TRUE, r.ret)>>, r.reg, "ok")
            IN param(generateSchema(TypeOf(f.type), reg, 0))
  ELSE IF f.form # <<>> /\ f.form # sDash THEN
    LET paramName == Split(f.form, ",")[1]
    IN IF paramName = <<>> THEN Outcome(<<>>, reg, "ok")
       ELSE IF contains(pathParams, paramName) THEN Outcome(<<>>, reg, "ok")
       ELSE LET required == f.validate # <<>> /\ Contains(f.validate, sRequired)
                param(r) ==
                  IF r.status # "ok" THEN Outcome(<<>>, r.reg, r.status)
                  ELSE Outcome(<<Parameter(paramName, "query", required, r.ret)>>, r.reg, "ok")
            IN param(generateSchema(TypeOf(f.type), reg, 0))
  ELSE Outcome(<<>>, reg, "ok")

RECURSIVE paramFields(_, _, _, _, _)
\* the field loop of generateParameters from field i on; acc holds, per
\* field already visited, what its iteration appended
paramFields(t, i, pathParams, acc, reg) ==
  IF i > Len(t.fields) THEN Outcome(acc, reg, "ok")
  ELSE LET rest(r) == IF r.status # "ok" THEN Outcome(acc, r.reg, r.status)
                      ELSE paramFields(t, i + 1, pathParams, Append(acc, r.ret), r.reg)
       IN rest(paramOfField(t.fields[i], pathParams, reg))

RECURSIVE Flatten(_)
Flatten(ss) == IF ss = <<>> THEN <<>> ELSE Head(ss) \o Flatten(Tail(ss))

\* ret is the parameter list, perField what each field contributed to it
generateParameters(t, path, reg) ==
  IF t.kind = "nil" THEN [ret |-> <<>>, perField |-> <<>>, reg |-> reg, status |-> "ok"]
  ELSE IF t.kind # "struct"
  THEN [ret |-> <<>>, perField |-> <<>>, reg |-> reg, status |-> "panic"]
  ELSE LET result(r) == [ret |-> Flatten(r.ret), perField |-> r.ret,
                          reg |-> r.reg, status |-> r.status]
       IN result(paramFields(t, 1, extractPathParameters(path), <<>>, reg))

(***************************************************************************)
(* AddEndpoint                                                             *)
(***************************************************************************)
ErrorSchema ==
  [Sch("object", "") EXCEPT
     !.properties = MapPut(MapPut(EmptyMap, sStatus, Sch("integer", "")),
                           sMessage, Sch("string", ""))]

JSONContent(schema) == MapPut(EmptyMap, "application/json", [schema |-> schema])

\* the Responses map of the Operation literal
Responses(schema200) ==
  MapPut(MapPut(EmptyMap,
                "200", [description |-> "Success", content |-> JSONContent(schema200)]),
         "400", [description |-> "Bad Request", content |-> JSONContent(ErrorSchema)])

RECURSIVE bodyContent(_, _, _, _, _)
\* the loop over the detected content types, from the i-th on
bodyContent(cts, i, t, content, reg) ==
  IF i > Len(cts) THEN Outcome(content, reg, "ok")
  ELSE LET rest(r) ==
             IF r.status # "ok" THEN Outcome(content, r.reg, r.status)
             ELSE bodyContent(cts, i + 1, t, MapPut(content, cts[i], [schema |-> r.ret]), r.reg)
       IN rest(generateSchema(t, reg, 0))

NoOperation == <<>>

\* The operation AddEndpoint builds before it touches sg.spec.Paths; ret is
\* the operation, reg the registry after the schema syntheses it triggered.
newOperation(method, path, requestType, responseType, reg) ==
  LET withParameters(base, gp) ==
        IF gp.status # "ok" THEN Outcome(NoOperation, gp.reg, gp.status)
        ELSE Outcome([base EXCEPT !.parameters = gp.ret], gp.reg, "ok")
      withContent(base, bc) ==
        IF bc.status # "ok" THEN Outcome(NoOperation, bc.reg, bc.status)
        ELSE Outcome([base EXCEPT
                        !.requestBody = <<[description |-> "Request body",
                                           content |-> bc.ret,
                                           required |-> TRUE]>>],
                     bc.reg, "ok")
      withRequestBody(base, cts, reg200) ==
        IF cts.status # "ok" THEN Outcome(NoOperation, reg200, cts.status)
        ELSE withContent(base, bodyContent(cts.ret, 1, requestType, EmptyMap, reg200))
      withRequest(base, reg200) ==
        IF requestType.kind = "nil" THEN Outcome(base, reg200, "ok")
        ELSE IF method = "GET" \/ method = "HEAD"
        THEN withParameters(base, generateParameters(requestType, path, reg200))
        ELSE withRequestBody(base, detectSwaggerContentTypes(requestType), reg200)
      operation(r200) ==
        IF r200.status # "ok" THEN Outcome(NoOperation, r200.reg, r200.status)
        ELSE withRequest([summary |-> <<method, path>>,
                          parameters |-> <<>>,
                          requestBody |-> <<>>,
                          responses |-> Responses(r200.ret)],
                         r200.reg)
  IN operation(generateSchema(responseType, reg, 0))

EmptyPathItem == [POST |-> <<>>, GET |-> <<>>, PUT |-> <<>>, DELETE |-> <<>>, PATCH |-> <<>>]

StoredMethods == {"POST", "GET", "PUT", "DELETE", "PATCH"}

\* setMethod with a HEAD case that stores the operation in the GET slot
setMethod_HeadAsGet(pathItem, method, operation) ==
  IF method \in StoredMethods
  THEN [pathItem EXCEPT ![method] = <<operation>>]
  ELSE IF method = "HEAD"
  THEN [pathItem EXCEPT !["GET"] = <<operation>>]
  ELSE pathItem

\* setMethod that merges into the operation already stored for the method:
\* the parameters of the old operation are kept in front of the new ones
setMethod_Accumulate(pathItem, method, operation) ==
  IF method \in StoredMethods
  THEN [pathItem EXCEPT ![method] =
          IF pathItem[method] = <<>> THEN <<operation>>
          ELSE <<[operation EXCEPT
                    !.parameters = pathItem[method][1].parameters \o operation.parameters]>>]
  ELSE pathItem

\* the switch on method that puts the operation into the path item
setMethod(pathItem, method, operation) ==
  IF method \in StoredMethods
  THEN [pathItem EXCEPT ![method] = <<operation>>]
  ELSE pathItem

\* AddEndpoint on a generator whose maps are pths and reg
addEndpoint(method, path, requestType, responseType, pths, reg) ==
  LET pathItem == IF path \in DOMAIN pths THEN pths[path] ELSE EmptyPathItem
      put(o) ==
        IF o.status # "ok"
        THEN [paths |-> pths, reg |-> o.reg, status |-> o.status]
        ELSE [paths |-> MapPut(pths, path, setMethod(pathItem, method, o.ret)),
              reg |-> o.reg, status |-> "ok"]
  IN put(newOperation(method, path, requestType, responseType, reg))

(***************************************************************************)
(* Generate and the JSON form of the document                              *)
(***************************************************************************)
RECURSIVE addAll(_, _, _, _)
\* the loop of Generate over the handler map, visited in the order infos
addAll(infos, i, pths, reg) ==
  IF i > Len(infos) THEN [paths |-> pths, reg |-> reg, status |-> "ok"]
  ELSE LET h == infos[i]
           rest(r) == IF r.status # "ok" THEN r
                      ELSE addAll(infos, i + 1, r.paths, r.reg)
       IN rest(addEndpoint(h.method, h.path, TypeOf(h.reqType), TypeOf(h.resType), pths, reg))

\* a JSON object: the entries of full whose key is in keep
Object(full, keep) == [k \in keep |-> full[k]]

RECURSIVE MarshalSchema(_)
\* json.Marshal of a Schema: every field is omitempty
MarshalSchema(s) ==
  LET full == [type |-> s.type,
               properties |-> [n \in DOMAIN s.properties |-> MarshalSchema(s.properties[n])],
               required |-> s.required,
               items |-> IF s.items = <<>> THEN <<>> ELSE MarshalSchema(s.items[1]),
               format |-> s.format,
               description |-> s.description]
      keep == (IF s.type # "" THEN {"type"} ELSE {})
              \cup (IF DOMAIN s.properties # {} THEN {"properties"} ELSE {})
              \cup (IF s.required # <<>> THEN {"required"} ELSE {})
              \cup (IF s.items # <<>> THEN {"items"} ELSE {})
              \cup (IF s.format # "" THEN {"format"} ELSE {})
              \cup (IF s.description # <<>> THEN {"description"} ELSE {})
  IN Object(full, keep)

MarshalContent(content) ==
  [ct \in DOMAIN content |-> [schema |-> MarshalSchema(content[ct].schema)]]

MarshalParameter(p) ==
  [name |-> p.name, in |-> p.in, required |-> p.required, schema |-> MarshalSchema(p.schema)]

MarshalResponse(r) == [description |-> r.description, content |-> MarshalContent(r.content)]

MarshalOperation(op) ==
  LET full == [summary |-> op.summary,
               parameters |-> [i \in 1..Len(op.parameters) |-> MarshalParameter(op.parameters[i])],
               requestBody |-> IF op.requestBody = <<>> THEN <<>>
                               ELSE [description |-> op.requestBody[1].description,
                                     content |-> MarshalContent(op.requestBody[1].content),
                                     required |-> op.requestBody[1].required],
               responses |-> [c \in DOMAIN op.responses |-> MarshalResponse(op.responses[c])]]
      keep == {"summary", "responses"}
              \cup (IF op.parameters # <<>> THEN {"parameters"} ELSE {})
              \cup (IF op.requestBody # <<>> THEN {"requestBody"} ELSE {})
  IN Object(full, keep)

MarshalPathItem(item) ==
  LET keep == {m \in StoredMethods : item[m] # <<>>}
  IN [m \in keep |-> MarshalOperation(item[m][1])]

\* json.Marshal(sg.spec) read back into a map
MarshalSpec(pths, reg) ==
  [openapi |-> "3.0.0",
   info |-> [title |-> "Test", version |-> "1.0.0",
             description |-> "Auto-generated API documentation"],
   paths |-> [p \in DOMAIN pths |-> MarshalPathItem(pths[p])],
   components |-> IF DOMAIN reg = {} THEN <<>>
                  ELSE [schemas |-> [n \in DOMAIN reg |-> MarshalSchema(reg[n])]]]

(***************************************************************************)
(* Handle / Middleware registration (handler.go) and App (app.go)          *)
(***************************************************************************)
\* detectContentTypes of handler.go: like the generator's, behind a Kind check
detectContentTypes(t) ==
  IF t.kind = "nil" \/ t.kind # "struct" THEN <<"application/json">>
  ELSE IF HasFile(t) THEN <<"multipart/form-data">>
  ELSE IF HasForm(t) THEN
    <<"application/x-www-form-urlencoded">>
      \o (IF HasJSON(t) THEN <<"application/json">> ELSE <<>>)
  ELSE IF HasJSON(t) THEN <<"application/json">>
  ELSE <<"application/json">>

\* What lookupHandlerTypes returns for a handler made by Handle (resType a
\* type id) or by Middleware (resType "nil"): registerHandlerTypes runs once
\* per detected content type under one key, so the last content type stays.
HandlerInfo(method, path, reqType, resType) ==
  LET cts == detectContentTypes(TypeOf(reqType))
  IN [method |-> method, path |-> path, reqType |-> reqType, resType |-> resType,
      contentType |-> cts[Len(cts)]]

\* the routes the application registers
Routes ==
  { HandlerInfo("POST", pMerge, "QueryReq", "H"),
    HandlerInfo("POST", pMerge, "HeaderReq", "H"),
    HandlerInfo("POST", pMerge, "BodyReq", "H"),
    HandlerInfo("POST", pMerge, "AnonName", "Res"),
    HandlerInfo("POST", pMerge, "AnonOK", "Res"),
    HandlerInfo("GET", pUsersId, "GetReq", "Res"),
    HandlerInfo("GET", pUsersId, "QueryReq", "Item"),
    HandlerInfo("HEAD", pUsersId, "GetReq", "Res"),
    HandlerInfo("PUT", pUsersId, "BodyReq", "nil"),
    HandlerInfo("GET", pMerge, "nil", "Node"),
    HandlerInfo("DELETE", pMerge, "string", "H"),
    HandlerInfo("PATCH", pMerge, "PtrBodyReq", "Res") }

\* the routes added to the generator directly, without an App
DirectRoutes ==
  { HandlerInfo("POST", pMerge, "AnonName", "Res"),
    HandlerInfo("POST", pMerge, "AnonOK", "Res"),
    HandlerInfo("PUT", pUsersId, "BodyReq", "nil"),
    HandlerInfo("GET", pUsersId, "GetReq", "Res") }

\* the types generateSchema is called on directly
SchemaTypes == {"Node", "Ping", "Res", "string"}

Call(call, method, path, req, res, status, ret) ==
  [call |-> call, method |-> method, path |-> path, req |-> req, res |-> res,
   status |-> status, ret |-> ret]

NoCall == Call("none", "", <<>>, "nil", "nil", "ok", <<>>)

\* the goroutines that call the generator
Goroutines == 1..NumGoroutines

\* a goroutine that is not inside a call of the generator
Idle == [pc |-> "idle", call |-> "", h |-> <<>>, op |-> <<>>, rest |-> <<>>]

\* a stack overflow is fatal to the process; a panic can be recovered
Running == last.status # "stack overflow" /\ ncalls < MaxCalls

(***************************************************************************)
(* Validation messages (validation.go)                                     *)
(*                                                                         *)
(* A message is a sequence of pieces of text; the piece "%s" is the verb   *)
(* fmt.Sprintf replaces by its next argument.                              *)
(***************************************************************************)
\* a validator.FieldError: Field(), Tag(), Param()
FieldError(field, tag, param) == [field |-> field, tag |-> tag, param |-> param]

RECURSIVE ExtraArgs(_, _)
\* the arguments fmt reports as left over: string=a, string=b
ExtraArgs(args, i) ==
  IF i > Len(args) THEN <<>>
  ELSE (IF i > 1 THEN <<", ">> ELSE <<>>) \o <<"string=", args[i]>> \o ExtraArgs(args, i + 1)

RECURSIVE SprintfFrom(_, _, _, _)
\* fmt.Sprintf from piece i of msg on, the arguments from k on not yet used
SprintfFrom(msg, i, args, k) ==
  IF i > Len(msg)
  THEN IF k > Len(args) THEN <<>>
       ELSE <<"%!(EXTRA ">> \o ExtraArgs(SubSeq(args, k, Len(args)), 1) \o <<")">>
  ELSE IF msg[i] = "%s"
       THEN IF k > Len(args)
            THEN <<"%!s(MISSING)">> \o SprintfFrom(msg, i + 1, args, k)
            ELSE <<args[k]>> \o SprintfFrom(msg, i + 1, args, k + 1)
       ELSE <<msg[i]>> \o SprintfFrom(msg, i + 1, args, k)

\* fmt.Sprintf(msg, args...)
Sprintf(msg, args) == SprintfFrom(msg, 1, args, 1)

\* RegisterTranslation(lang, tag, message) on the registry reg
registerTranslation(reg, lang, tag, message) ==
  LET tbl == IF lang \in DOMAIN reg THEN reg[lang] ELSE EmptyMap
  IN MapPut(reg, lang, MapPut(tbl, tag, message))

\* translate(lang, tag, args...)
translate(reg, lang, tag, args) ==
  IF lang \in DOMAIN reg /\ tag \in DOMAIN reg[lang]
  THEN [msg |-> Sprintf(reg[lang][tag], args), ok |-> TRUE]
  ELSE [msg |-> <<>>, ok |-> FALSE]

\* defaultValidationMessage(e)
defaultValidationMessage(e) ==
  CASE e.tag = "required" -> Sprintf(<<"%s", " is required">>, <<e.field>>)
    [] e.tag = "email" -> Sprintf(<<"%s", " must be a valid email address">>, <<e.field>>)
    [] e.tag = "min" ->
         Sprintf(<<"%s", " must be at least ", "%s", " characters">>, <<e.field, e.param>>)
    [] e.tag = "max" ->
         Sprintf(<<"%s", " must be at most ", "%s", " characters">>, <<e.field, e.param>>)
    [] e.tag = "len" ->
         Sprintf(<<"%s", " must be exactly ", "%s", " characters">>, <<e.field, e.param>>)
    [] e.tag = "numeric" -> Sprintf(<<"%s", " must be numeric">>, <<e.field>>)
    [] e.tag = "alpha" -> Sprintf(<<"%s", " must contain only letters">>, <<e.field>>)
    [] e.tag = "alphanum" ->
         Sprintf(<<"%s", " must contain only letters and numbers">>, <<e.field>>)
    [] OTHER -> Sprintf(<<"%s", " failed validation for ", "%s">>, <<e.field, e.tag>>)

\* formatValidationError(e, lang)
formatValidationError(reg, e, lang) ==
  LET args == IF e.param # "" THEN <<e.field, e.param>> ELSE <<e.field>>
  IN IF translate(reg, lang, e.tag, args).ok
     THEN translate(reg, lang, e.tag, args).msg
     ELSE defaultValidationMessage(e)

RECURSIVE Join(_, _, _)
\* strings.Join(messages, sep) from message i on
Join(messages, sep, i) ==
  IF i > Len(messages) THEN <<>>
  ELSE (IF i > 1 THEN <<sep>> ELSE <<>>) \o messages[i] \o Join(messages, sep, i + 1)

\* the header value taken as it is, with no language for an absent header
requestLanguage_Header(acceptLanguage) == acceptLanguage

\* the language validateStruct reads from the request
requestLanguage(acceptLanguage) == IF acceptLanguage = "" THEN "en" ELSE acceptLanguage

\* validateStruct(ctx, s), result being what validate.Struct(s) returned: nil,
\* validator.ValidationErrors or another error.  translate takes and releases
\* mu for every message, so each message is formed from the registry as it
\* is at that moment: regs[i] is the registry the call for error i reads.
\* The error returned is <<>> for nil, <<text>> otherwise.
validateStruct(regs, acceptLanguage, result) ==
  IF result.kind = "nil" THEN <<>>
  ELSE IF result.kind # "ValidationErrors"
  THEN << <<"validation failed: ", result.text>> >>
  ELSE << <<"validation failed: ">>
          \o Join([i \in 1..Len(result.errors) |->
                     formatValidationError(regs[i], result.errors[i],
                                           requestLanguage(acceptLanguage))],
                  "; ", 1) >>

(***************************************************************************)
(* Serving a request: gin.Context, Handle and Middleware (handler.go)      *)
(***************************************************************************)
\* the index gin.Context.Abort sets: no handler of the chain is at or past it
abortIndex == 63

\* the gin.Context of a request before the chain runs.  writes are the
\* ctx.JSON calls made, log the calls the closures made and their results.
NewContext(request) == [request |-> request, index |-> -1, writes |-> <<>>, log |-> <<>>]

\* no request served yet
NoContext == NewContext(<<>>)

\* ctx.JSON(code, obj)
JSON(c, code, obj) == [c EXCEPT !.writes = Append(@, [status |-> code, body |-> obj])]

\* an Abort that leaves the chain as it is
Abort_Nothing(c) == c

\* ctx.Abort()
Abort(c) == [c EXCEPT !.index = abortIndex]

\* the closure at position c.index of the chain made the call op, which
\* returned result
Logged(c, op, result) ==
  [c EXCEPT !.log = Append(@, [h |-> c.index + 1, op |-> op, result |-> result])]

\* the 400 response of a failed step, its text the prefix followed by the
\* text of the error err; a middleware aborts the chain after it
badRequest(c, prefix, err, isMiddleware) ==
  IF isMiddleware
  THEN Abort(JSON(c, 400, [error |-> <<prefix>> \o err]))
  ELSE JSON(c, 400, [error |-> <<prefix>> \o err])

\* the gin binding calls the closure makes on a request, in order
bindingCalls(request) ==
  (IF request.method # "GET" /\ request.method # "HEAD" /\ request.contentLength # 0
   THEN IF request.contentType = "application/x-www-form-urlencoded"
        THEN <<[op |-> "ShouldBind", from |-> "body", prefix |-> "Form binding failed: "]>>
        ELSE IF request.contentType = "multipart/form-data"
        THEN <<[op |-> "ShouldBind", from |-> "body", prefix |-> "Multipart binding failed: "]>>
        ELSE <<[op |-> "ShouldBindBodyWith", from |-> "body", prefix |-> "JSON binding failed: "]>>
   ELSE <<>>)
  \o << [op |-> "ShouldBindQuery", from |-> "query", prefix |-> "Query binding failed: "],
        [op |-> "ShouldBindUri", from |-> "uri", prefix |-> "Path binding failed: "],
        [op |-> "ShouldBindHeader", from |-> "header", prefix |-> "Header binding failed: "] >>

\* the condition under which the closure validates the request value
isValidated(reqType) ==
  reqType.kind # "nil"
  /\ (reqType.kind = "struct"
      \/ (reqType.kind = "ptr" /\ TypeOf(reqType.elem).kind = "struct"))

RECURSIVE translateCalls(_, _)
\* the translate calls the closures have made, from entry k of the log on
translateCalls(log, k) ==
  IF k > Len(log) THEN 0
  ELSE (IF log[k].op = "translate" THEN Len(log[k].result.reads) ELSE 0)
       + translateCalls(log, k + 1)

\* a validation step that answers 400 and goes on to the user's function
validated_Continue(c, reqType, regs, in, isMiddleware) ==
  LET made == translateCalls(c.log, 1)
      read == [i \in 1..Len(in.validation.errors) |->
                 IF made + i <= Len(regs) THEN regs[made + i] ELSE EmptyMap]
      err == validateStruct(read, c.request.acceptLanguage, in.validation)
      v == Logged(c, "validateStruct", in.validation)
  IN IF ~isValidated(reqType) THEN [c |-> c, ok |-> TRUE]
     ELSE IF err = <<>> THEN [c |-> v, ok |-> TRUE]
     ELSE [c |-> badRequest(IF in.validation.kind = "ValidationErrors"
                            THEN Logged(v, "translate", [reads |-> read]) ELSE v,
                            "Validation failed: ", err[1], isMiddleware),
           ok |-> TRUE]

\* the validation step of the closure; ok tells whether the closure goes on.
\* regs are the registries the translate calls of the request have read, in
\* the order of the calls; a call not made yet has read nothing (the empty
\* registry stands for it).
validated(c, reqType, regs, in, isMiddleware) ==
  LET made == translateCalls(c.log, 1)
      read == [i \in 1..Len(in.validation.errors) |->
                 IF made + i <= Len(regs) THEN regs[made + i] ELSE EmptyMap]
      err == validateStruct(read, c.request.acceptLanguage, in.validation)
      v == Logged(c, "validateStruct", in.validation)
  IN IF ~isValidated(reqType) THEN [c |-> c, ok |-> TRUE]
     ELSE IF err = <<>> THEN [c |-> v, ok |-> TRUE]
     ELSE [c |-> badRequest(IF in.validation.kind = "ValidationErrors"
                            THEN Logged(v, "translate", [reads |-> read]) ELSE v,
                            "Validation failed: ", err[1], isMiddleware),
           ok |-> FALSE]

RECURSIVE bound(_, _, _, _, _, _, _)
\* the binding calls from call i on, then the validation: in gives what each
\* call of gin and of the validator returns on this request
bound(c, calls, i, reqType, regs, in, isMiddleware) ==
  IF i > Len(calls) THEN validated(c, reqType, regs, in, isMiddleware)
  ELSE IF in[calls[i].from] = "err"
  THEN [c |-> badRequest(Logged(c, calls[i].op, "err"), calls[i].prefix,
                         <<calls[i].from, " error">>, isMiddleware),
        ok |-> FALSE]
  ELSE bound(Logged(c, calls[i].op, "ok"), calls, i + 1, reqType, regs, in, isMiddleware)

\* what the user's function returns
NoError == [kind |-> "nil", status |-> 0, message |-> ""]
NewHTTPError(status, message) == [kind |-> "HTTPError", status |-> status, message |-> message]
OtherError(text) == [kind |-> "error", status |-> 0, message |-> text]

\* every error of the user's function answered with 500
errorResponse_Always500(c, err) ==
  JSON(c, 500, [error |-> <<"Internal server error: ", err.message>>])

\* the response written for the error err of the user's function
errorResponse(c, err) ==
  IF err.kind = "HTTPError"
  THEN JSON(c, err.status, [status |-> err.status, message |-> err.message])
  ELSE JSON(c, 500, [error |-> <<"Internal server error: ", err.message>>])

\* the closure Handle returns, run on c: h is the handler (its request type
\* id), in the results of the calls it makes
handle(c, h, regs, in) ==
  LET called(b) ==
        IF ~b.ok THEN b.c
        ELSE IF in.fn.kind # "nil"
        THEN errorResponse(Logged(b.c, "fn", in.fn), in.fn)
        ELSE JSON(Logged(b.c, "fn", in.fn), 200, [result |-> h.resType])
  IN called(bound(Logged(c, h.wrap, "enter"), bindingCalls(c.request), 1,
                  TypeOf(h.reqType), regs, in, FALSE))

RECURSIVE Chain(_, _, _, _)
\* c.Next(): c.index++, then every handler of the chain from c.index on.
\* The closure Middleware returns calls Next itself after its function
\* returned nil, aborts the chain otherwise.
Chain(c, chain, regs, ins) ==
  LET middleware(m, h, in) ==
        LET called(b) ==
              IF ~b.ok THEN b.c
              ELSE IF in.fn.kind # "nil"
              THEN Abort(errorResponse(Logged(b.c, "fn", in.fn), in.fn))
              ELSE Chain(Logged(b.c, "fn", in.fn), chain, regs, ins)
        IN called(bound(Logged(m, h.wrap, "enter"), bindingCalls(m.request), 1,
                        TypeOf(h.reqType), regs, in, TRUE))
      run(m) ==
        IF chain[m.index + 1].wrap = "Middleware"
        THEN middleware(m, chain[m.index + 1], ins[m.index + 1])
        ELSE handle(m, chain[m.index + 1], regs, ins[m.index + 1])
      advance(m) == [m EXCEPT !.index = @ + 1]
      loop(m) == IF m.index < Len(chain) THEN Chain(run(m), chain, regs, ins) ELSE m
  IN loop(advance(c))


\* a handler of a chain: what made it (Handle, Middleware, or a plain gin
\* function) and the type ids of its request and response
Handler(wrap, reqType, resType) == [reqType |-> reqType, resType |-> resType, wrap |-> wrap]

pOpenAPI == <<"/", "o", "p", "e", "n", "a", "p", "i", ".", "j", "s", "o", "n">>
pDocs == <<"/", "d", "o", "c", "s">>

\* the function EnableSwaggerUI serves the document with, and sg.UIHandler()
OpenAPIHandler == Handler("func", "nil", "nil")
UIHandler == Handler("UIHandler", "nil", "nil")

\* the router of New().WithSwagger(title, version)
SwaggerRouter ==
  [k \in {<<"GET", pOpenAPI>>, <<"GET", pDocs>>} |->
     IF k[2] = pOpenAPI THEN OpenAPIHandler ELSE UIHandler]

Init ==
  /\ paths = EmptyMap
  /\ schemas = EmptyMap
  /\ handlers = EmptyMap
  /\ last = NoCall
  /\ prev = NoCall
  /\ doc = <<>>
  /\ ncalls = 0
  /\ shape = NilType
  /\ routePath = <<>>
  /\ inflight = [g \in Goroutines |-> Idle]
  /\ translationRegistry = EmptyMap
  /\ ctx = NoContext
  /\ enableSwagger = TRUE
  /\ router = SwaggerRouter

\* sg.AddEndpoint(h.method, h.path, h.reqType, h.resType, h.contentType)
AddEndpoint(h) ==
  /\ Running
  /\ \E r \in {addEndpoint(h.method, h.path, TypeOf(h.reqType), TypeOf(h.resType),
                          paths, schemas)} :
        /\ paths' = r.paths
        /\ schemas' = r.reg
        /\ last' = Call("AddEndpoint", h.method, h.path, h.reqType, h.resType, r.status, <<>>)
  /\ prev' = last
  /\ ncalls' = ncalls + 1
  /\ UNCHANGED <<handlers, doc, shape, routePath, inflight,
               translationRegistry, ctx, enableSwagger, router>>

\* App.GET/POST/... with swagger enabled: captureHandlerInfo(method, path, handler)
captureHandlerInfo(h) ==
  /\ Running
  /\ handlers' = MapPut(handlers, <<h.method, h.path>>, h)
  /\ \E r \in {addEndpoint(h.method, h.path, TypeOf(h.reqType), TypeOf(h.resType),
                          paths, schemas)} :
        /\ paths' = r.paths
        /\ schemas' = r.reg
        /\ last' = Call("captureHandlerInfo", h.method, h.path, h.reqType, h.resType,
                        r.status, <<>>)
  /\ prev' = last
  /\ ncalls' = ncalls + 1
  /\ UNCHANGED <<doc, shape, routePath, inflight,
               translationRegistry, ctx, enableSwagger, router>>

\* the orders in which a range over the map m can visit its values
RangeOrders(m) ==
  LET n == Cardinality(DOMAIN m)
  IN { [i \in 1..n |-> m[ks[i]]] :
         ks \in { f \in [1..n -> DOMAIN m] : \A i, j \in 1..n : i # j => f[i] # f[j] } }

\* sg.Generate(a.handlers)
Generate ==
  /\ Running
  /\ \E infos \in RangeOrders(handlers) :
       \E r \in {addAll(infos, 1, paths, schemas)} :
          /\ paths' = r.paths
          /\ schemas' = r.reg
          /\ doc' = IF r.status = "ok" THEN MarshalSpec(r.paths, r.reg) ELSE <<>>
          /\ last' = Call("Generate", "", <<>>, "nil", "nil", r.status, <<>>)
  /\ prev' = last
  /\ ncalls' = ncalls + 1
  /\ UNCHANGED <<handlers, shape, routePath, inflight,
               translationRegistry, ctx, enableSwagger, router>>

\* sg.generateSchema(t)
GenerateSchema(t) ==
  /\ Running
  /\ \E r \in {generateSchema(TypeOf(t), schemas, 0)} :
        /\ schemas' = r.reg
        /\ last' = Call("generateSchema", "", <<>>, t, "nil", r.status, r.ret)
  /\ prev' = last
  /\ ncalls' = ncalls + 1
  /\ UNCHANGED <<paths, handlers, doc, shape, routePath, inflight,
               translationRegistry, ctx, enableSwagger, router>>

Next ==
  \/ \E h \in DirectRoutes : AddEndpoint(h)
  \/ \E h \in Routes : captureHandlerInfo(h)
  \/ Generate
  \/ \E t \in SchemaTypes : GenerateSchema(t)

Spec == Init /\ [][Next]_vars

(***************************************************************************)
(* The pure functions on one shape: specification SpecShapes               *)
(***************************************************************************)
\* the fields a drawn shape is made of
ShapeFields ==
  { Fld("A", "string", sA, NoTag, NoTag, NoTag, NoTag),
    Fld("O", "string", sOmitempty, NoTag, NoTag, NoTag, NoTag),
    Fld("OB", "string", sOmitempty, sB, NoTag, NoTag, NoTag),
    Fld("B", "string", NoTag, sB, NoTag, NoTag, NoTag),
    Fld("X", "string", NoTag, sCommaX, NoTag, NoTag, NoTag),
    Fld("AB", "string", sA, sB, NoTag, NoTag, sRequiredEmail),
    Fld("ID", "string", NoTag, sId, sId, NoTag, NoTag),
    Fld("IQ", "int", NoTag, sQ, sId, NoTag, sRequired),
    Fld("Dup", "int", NoTag, sId, NoTag, NoTag, NoTag),
    Fld("EQ", "string", NoTag, sQ, sCommaX, NoTag, NoTag),
    Fld("Token", "string", NoTag, NoTag, NoTag, sXToken, sRequired),
    Fld("Auth", "string", NoTag, NoTag, NoTag, sAuthorization, NoTag),
    Fld("Q", "int", NoTag, sQ, NoTag, NoTag, sRequiredWithout),
    Fld("File", "PtrFileHeader", NoTag, sFile, NoTag, NoTag, NoTag),
    Fld("Files", "SlicePtrFileHeader", NoTag, sFiles, NoTag, NoTag, NoTag),
    Fld("Blob", "FileHeader", NoTag, sFile, NoTag, NoTag, NoTag),
    Fld("Plain", "string", NoTag, NoTag, NoTag, NoTag, NoTag) }

\* the primitive types, and pointers to them, a schema is asked for
PrimitiveIds ==
  {"int32", "uint", "uint64", "float32", "float64", "bool", "PtrString", "PtrInt"}

\* the shapes drawn: structs of up to MaxFields fields, and non-struct types
Shapes ==
  { Struct("Shape", "fluxo", "fluxo.Shape", fs) :
      fs \in UNION { [1..n -> ShapeFields] : n \in 1..MaxFields } }
  \cup { TypeTable["string"], TypeTable["int"], TypeTable["PtrBodyReq"], NilType }
  \cup { TypeTable[id] : id \in PrimitiveIds }

RoutePaths == {pMerge, pUsersId}

InitShapes ==
  /\ paths = EmptyMap
  /\ schemas = EmptyMap
  /\ handlers = EmptyMap
  /\ last = NoCall
  /\ prev = NoCall
  /\ doc = <<>>
  /\ ncalls = 0
  /\ shape \in Shapes
  /\ routePath \in RoutePaths
  /\ inflight = [g \in Goroutines |-> Idle]
  /\ translationRegistry = EmptyMap
  /\ ctx = NoContext
  /\ enableSwagger = TRUE
  /\ router = SwaggerRouter

\* sg.detectSwaggerContentTypes(shape)
DetectSwaggerContentTypes ==
  /\ ncalls = 0
  /\ \E r \in {detectSwaggerContentTypes(shape)} :
        last' = Call("detectSwaggerContentTypes", "", <<>>, "nil", "nil", r.status, r.ret)
  /\ ncalls' = 1
  /\ UNCHANGED <<paths, schemas, handlers, prev, doc, shape, routePath, inflight,
               translationRegistry, ctx, enableSwagger, router>>

\* detectContentTypes(shape), as Handle and Middleware call it
DetectContentTypes ==
  /\ ncalls = 0
  /\ last' = Call("detectContentTypes", "", <<>>, "nil", "nil", "ok", detectContentTypes(shape))
  /\ ncalls' = 1
  /\ UNCHANGED <<paths, schemas, handlers, prev, doc, shape, routePath, inflight,
               translationRegistry, ctx, enableSwagger, router>>

\* sg.generateParameters(shape, routePath); ret holds the list and, per
\* field, what the field contributed to it
GenerateParameters ==
  /\ ncalls = 0
  /\ \E r \in {generateParameters(shape, routePath, schemas)} :
        /\ schemas' = r.reg
        /\ last' = Call("generateParameters", "", routePath, "nil", "nil", r.status,
                        [list |-> r.ret, perField |-> r.perField])
  /\ ncalls' = 1
  /\ UNCHANGED <<paths, handlers, prev, doc, shape, routePath, inflight,
               translationRegistry, ctx, enableSwagger, router>>

\* sg.generateSchema(shape)
GenerateShapeSchema ==
  /\ ncalls = 0
  /\ \E r \in {generateSchema(shape, schemas, 0)} :
        /\ schemas' = r.reg
        /\ last' = Call("generateSchema", "", <<>>, "nil", "nil", r.status, r.ret)
  /\ ncalls' = 1
  /\ UNCHANGED <<paths, handlers, prev, doc, shape, routePath, inflight,
               translationRegistry, ctx, enableSwagger, router>>

NextShapes ==
  \/ DetectSwaggerContentTypes
  \/ DetectContentTypes
  \/ GenerateParameters
  \/ GenerateShapeSchema

SpecShapes == InitShapes /\ [][NextShapes]_vars

(***************************************************************************)
(* Calls from several goroutines: specification SpecConcurrent             *)
(***************************************************************************)
\* the routes registered at startup, before requests are served
StartupRoutes ==
  << HandlerInfo("POST", pMerge, "AnonName", "Res"),
     HandlerInfo("GET", pUsersId, "GetReq", "Res") >>

\* the routes goroutines register while the application runs
ConcurrentRoutes ==
  { HandlerInfo("POST", pMerge, "AnonOK", "Res"),
    HandlerInfo("GET", pUsersId, "QueryReq", "Item"),
    HandlerInfo("PUT", pUsersId, "BodyReq", "nil") }

InitConcurrent ==
  /\ paths = addAll(StartupRoutes, 1, EmptyMap, EmptyMap).paths
  /\ schemas = addAll(StartupRoutes, 1, EmptyMap, EmptyMap).reg
  /\ handlers = [k \in {<<StartupRoutes[i].method, StartupRoutes[i].path>> :
                          i \in 1..Len(StartupRoutes)} |->
                   CHOOSE h \in {StartupRoutes[i] : i \in 1..Len(StartupRoutes)} :
                     <<h.method, h.path>> = k]
  /\ last = NoCall
  /\ prev = NoCall
  /\ doc = <<>>
  /\ ncalls = 0
  /\ shape = NilType
  /\ routePath = <<>>
  /\ inflight = [g \in Goroutines |-> Idle]
  /\ translationRegistry = EmptyMap
  /\ ctx = NoContext
  /\ enableSwagger = TRUE
  /\ router = SwaggerRouter

\* the runtime has not ended the process with a fatal error
Alive == last.status # "fatal error"

\* the maps a goroutine at pc reads or writes: AddEndpoint first works on
\* Components.Schemas (generateSchema), then on Paths; json.Marshal(sg.spec)
\* reads both
MapsOf(pc) ==
  IF pc = "schemas" THEN {"schemas"}
  ELSE IF pc = "paths" THEN {"paths"}
  ELSE IF pc = "generate" THEN {"schemas", "paths"}
  ELSE {}

\* the maps the goroutine g writes where it is
WritesOf(g) ==
  IF inflight[g].pc = "schemas"
  THEN IF newOperation(inflight[g].h.method, inflight[g].h.path,
                       TypeOf(inflight[g].h.reqType), TypeOf(inflight[g].h.resType),
                       schemas).reg # schemas
       THEN {"schemas"} ELSE {}
  ELSE IF inflight[g].pc = "paths" THEN {"paths"}
  ELSE {}

\* a goroutine enters sg.AddEndpoint(h...): nothing is acquired on entry
CallAddEndpoint(g, h) ==
  /\ Running /\ Alive
  /\ inflight[g].pc = "idle"
  /\ inflight' = [inflight EXCEPT ![g] = [pc |-> "schemas", call |-> "AddEndpoint",
                                          h |-> h, op |-> <<>>, rest |-> <<>>]]
  /\ ncalls' = ncalls + 1
  /\ UNCHANGED <<paths, schemas, handlers, last, prev, doc, shape, routePath,
               translationRegistry, ctx, enableSwagger, router>>

\* the Operation literal and the request part of AddEndpoint are built: the
\* schema syntheses have read and written Components.Schemas.  The path item
\* is then read from sg.spec.Paths and the operation put into this copy of
\* it, which op holds.  A panic ends the call, and the Generate the call was
\* made by.
EndSchemas(g) ==
  /\ Alive
  /\ inflight[g].pc = "schemas"
  /\ \E r \in {newOperation(inflight[g].h.method, inflight[g].h.path,
                            TypeOf(inflight[g].h.reqType),
                            TypeOf(inflight[g].h.resType), schemas)} :
        /\ schemas' = r.reg
        /\ IF r.status = "ok"
           THEN /\ inflight' =
                     [inflight EXCEPT
                        ![g].pc = "paths",
                        ![g].op = setMethod(IF inflight[g].h.path \in DOMAIN paths
                                            THEN paths[inflight[g].h.path]
                                            ELSE EmptyPathItem,
                                            inflight[g].h.method, r.ret)]
                /\ UNCHANGED <<last, prev>>
           ELSE /\ inflight' = [inflight EXCEPT ![g] = Idle]
                /\ last' = IF inflight[g].call = "Generate"
                           THEN Call("Generate", "", <<>>, "nil", "nil", r.status, <<>>)
                           ELSE Call("AddEndpoint", inflight[g].h.method, inflight[g].h.path,
                                     inflight[g].h.reqType, inflight[g].h.resType,
                                     r.status, <<>>)
                /\ prev' = last
  /\ UNCHANGED <<paths, handlers, doc, ncalls, shape, routePath,
               translationRegistry, ctx, enableSwagger, router>>

\* sg.spec.Paths[path] = pathItem: the copy of the path item is written
\* back, over whatever the map holds by now; AddEndpoint returns, to its
\* caller or to the loop of Generate, which goes on to its next handler or
\* to json.Marshal
EndPaths(g) ==
  /\ Alive
  /\ inflight[g].pc = "paths"
  /\ LET h == inflight[g].h
     IN /\ paths' = MapPut(paths, h.path, inflight[g].op)
        /\ IF inflight[g].call = "Generate"
           THEN /\ inflight' =
                     [inflight EXCEPT ![g] =
                        IF inflight[g].rest = <<>>
                        THEN [pc |-> "generate", call |-> "Generate", h |-> <<>>,
                              op |-> <<>>, rest |-> <<>>]
                        ELSE [pc |-> "schemas", call |-> "Generate",
                              h |-> Head(inflight[g].rest), op |-> <<>>,
                              rest |-> Tail(inflight[g].rest)]]
                /\ UNCHANGED <<last, prev>>
           ELSE /\ inflight' = [inflight EXCEPT ![g] = Idle]
                /\ last' = Call("AddEndpoint", h.method, h.path, h.reqType, h.resType,
                                "ok", <<>>)
                /\ prev' = last
  /\ UNCHANGED <<schemas, handlers, doc, ncalls, shape, routePath,
               translationRegistry, ctx, enableSwagger, router>>

\* a request to /openapi.json: its goroutine enters sg.Generate(a.handlers)
\* and ranges over the handlers in an order of the map's choosing, calling
\* AddEndpoint for each
CallGenerate(g) ==
  /\ Running /\ Alive
  /\ inflight[g].pc = "idle"
  /\ \E infos \in RangeOrders(handlers) :
       inflight' = [inflight EXCEPT ![g] =
                      IF infos = <<>>
                      THEN [pc |-> "generate", call |-> "Generate", h |-> <<>>,
                            op |-> <<>>, rest |-> <<>>]
                      ELSE [pc |-> "schemas", call |-> "Generate", h |-> Head(infos),
                            op |-> <<>>, rest |-> Tail(infos)]]
  /\ ncalls' = ncalls + 1
  /\ UNCHANGED <<paths, schemas, handlers, last, prev, doc, shape, routePath,
               translationRegistry, ctx, enableSwagger, router>>

\* the loop of Generate is over: json.Marshal(sg.spec) reads the maps as
\* they are now, and Generate returns the document
EndGenerate(g) ==
  /\ Alive
  /\ inflight[g].pc = "generate"
  /\ doc' = MarshalSpec(paths, schemas)
  /\ last' = Call("Generate", "", <<>>, "nil", "nil", "ok", <<>>)
  /\ prev' = last
  /\ inflight' = [inflight EXCEPT ![g] = Idle]
  /\ UNCHANGED <<paths, schemas, handlers, ncalls, shape, routePath,
               translationRegistry, ctx, enableSwagger, router>>

\* Two goroutines are on the same map and one of them writes it: a data
\* race.  The runtime may detect it and end the process ("concurrent map
\* writes", "concurrent map read and map write"); when it does not, the
\* calls go on and take effect in the order in which they finish.
Fatal(g) ==
  /\ Alive
  /\ inflight[g].pc # "idle"
  /\ \E g2 \in Goroutines \ {g} :
       \/ WritesOf(g) \cap MapsOf(inflight[g2].pc) # {}
       \/ MapsOf(inflight[g].pc) \cap WritesOf(g2) # {}
  /\ last' = Call("fatal", "", <<>>, "nil", "nil", "fatal error", <<>>)
  /\ prev' = last
  /\ UNCHANGED <<paths, schemas, handlers, doc, ncalls, shape, routePath, inflight,
               translationRegistry, ctx, enableSwagger, router>>

NextConcurrent ==
  \/ \E g \in Goroutines : \E h \in ConcurrentRoutes : CallAddEndpoint(g, h)
  \/ \E g \in Goroutines : EndSchemas(g)
  \/ \E g \in Goroutines : EndPaths(g)
  \/ \E g \in Goroutines : CallGenerate(g)
  \/ \E g \in Goroutines : EndGenerate(g)
  \/ \E g \in Goroutines : Fatal(g)

SpecConcurrent == InitConcurrent /\ [][NextConcurrent]_vars

(***************************************************************************)
(* Requests through Handle and Middleware: specification SpecRequests      *)
(***************************************************************************)
\* the requests served, as the closures read them: method, ContentLength,
\* what ctx.ContentType() returns, the Accept-Language header ("" when
\* absent); a request without a body has no content type
Requests ==
  { [method |-> r[1], contentLength |-> r[2], contentType |-> r[3],
     acceptLanguage |-> r[4]] :
      r \in { <<"GET", 0, "", "">>, <<"HEAD", 0, "", "">>, <<"POST", 0, "", "">>,
              <<"GET", 1, "application/json", "">>,
              <<"POST", 1, "application/json", "">>,
              <<"POST", 1, "application/json", "jp">>,
              <<"POST", 1, "application/x-www-form-urlencoded", "">>,
              <<"POST", 1, "multipart/form-data", "">> } }

\* what validate.Struct returns
ValidationResult(kind, errors, text) == [kind |-> kind, errors |-> errors, text |-> text]

ValidationResults ==
  { ValidationResult("nil", <<>>, ""),
    ValidationResult("ValidationErrors", <<FieldError("Name", "required", "")>>, ""),
    ValidationResult("ValidationErrors", <<FieldError("Age", "min", "18")>>, ""),
    ValidationResult("ValidationErrors",
                     <<FieldError("Name", "required", ""), FieldError("Age", "min", "18")>>,
                     ""),
    ValidationResult("ValidationErrors", <<FieldError("Name", "url", "")>>, ""),
    ValidationResult("InvalidValidationError", <<>>, "validator: (nil *fluxo.BodyReq)") }

\* the results of the calls one closure makes on a request; the user's
\* function returns nil, an error of errors.go, or another error.  A closure
\* stops at the first failure, so one failure at most is drawn, and the
\* user's function returns nil where it cannot be reached.
HandlerInputs ==
  { in \in [body : {"ok", "err"}, query : {"ok", "err"}, uri : {"ok", "err"},
            header : {"ok", "err"}, validation : ValidationResults,
            fn : {NoError, NewHTTPError(400, "bad"), NewHTTPError(404, "no"),
                  NewHTTPError(500, "down"), OtherError("boom")}] :
      LET failures == Cardinality({k \in {"body", "query", "uri", "header"} :
                                    in[k] = "err"})
                      + (IF in.validation.kind # "nil" THEN 1 ELSE 0)
      IN /\ failures <= 1
         /\ (failures = 1 /\ in.body = "ok") => in.fn = NoError }

\* every call of the closure succeeds and the user's function returns nil
AllOk ==
  [body |-> "ok", query |-> "ok", uri |-> "ok", header |-> "ok",
   validation |-> ValidationResult("nil", <<>>, ""), fn |-> NoError]

\* the translations registered
Translations ==
  { <<"jp", "required", <<"%s", " wa hissu desu">> >>,
    <<"jp", "required", <<"%s", " harus diisi">> >>,
    <<"en", "min", <<"Field ", "%s", " must be at least ", "%s">> >>,
    <<"jp", "min", <<"%s", " ga mijikai">> >> }

InitRequests ==
  /\ paths = EmptyMap
  /\ schemas = EmptyMap
  /\ handlers = EmptyMap
  /\ last = NoCall
  /\ prev = NoCall
  /\ doc = <<>>
  /\ ncalls = 0
  /\ shape = NilType
  /\ routePath = <<>>
  /\ inflight = [g \in Goroutines |-> Idle]
  /\ translationRegistry = EmptyMap
  /\ ctx = NoContext
  /\ enableSwagger = FALSE
  /\ router = EmptyMap

\* RegisterTranslation(lang, tag, message), from any goroutine and at any
\* time: under mu.Lock it is one step
RegisterTranslation(lang, tag, message) ==
  /\ ncalls < MaxTranslations
  /\ translationRegistry' = registerTranslation(translationRegistry, lang, tag, message)
  /\ last' = Call("RegisterTranslation", "", <<>>, "nil", "nil", "ok", <<lang, tag, message>>)
  /\ prev' = last
  /\ ncalls' = ncalls + 1
  /\ UNCHANGED <<paths, schemas, handlers, doc, shape, routePath, inflight,
                 ctx, enableSwagger, router>>

\* a request arrives at a route whose chain is chain: a.router.ServeHTTP
\* starts to run the chain on a goroutine.  ins are the results of the calls
\* the closures make on this request; op collects the registries its
\* translate calls read.
ServeHTTP(request, chain, ins) ==
  /\ ctx = NoContext
  /\ inflight[1].pc = "idle"
  /\ inflight' = [inflight EXCEPT ![1] =
                    [pc |-> "serving", call |-> "ServeHTTP",
                     h |-> [request |-> request, chain |-> chain, ins |-> ins],
                     op |-> <<>>, rest |-> <<>>]]
  /\ UNCHANGED <<paths, schemas, handlers, last, prev, doc, ncalls, shape, routePath,
                 translationRegistry, ctx, enableSwagger, router>>

\* the chain has come to its next translate call, which reads the registry
\* under mu.RLock.  What the closures do between two translate calls touches
\* nothing another goroutine reads or writes.
Translate(g) ==
  /\ inflight[g].pc = "serving"
  /\ Len(inflight[g].op)
       < translateCalls(Chain(NewContext(inflight[g].h.request), inflight[g].h.chain,
                              inflight[g].op, inflight[g].h.ins).log, 1)
  /\ inflight' = [inflight EXCEPT ![g].op = Append(@, translationRegistry)]
  /\ UNCHANGED <<paths, schemas, handlers, last, prev, doc, ncalls, shape, routePath,
                 translationRegistry, ctx, enableSwagger, router>>

\* the chain has made its last translate call: it runs to its end and the
\* response is complete
Respond(g) ==
  /\ inflight[g].pc = "serving"
  /\ \E c \in {Chain(NewContext(inflight[g].h.request), inflight[g].h.chain,
                     inflight[g].op, inflight[g].h.ins)} :
        /\ Len(inflight[g].op) = translateCalls(c.log, 1)
        /\ ctx' = c
  /\ last' = Call("ServeHTTP", inflight[g].h.request.method, <<>>, "nil", "nil", "ok",
                  inflight[g].h.chain)
  /\ prev' = last
  /\ inflight' = [inflight EXCEPT ![g] = Idle]
  /\ UNCHANGED <<paths, schemas, handlers, doc, ncalls, shape, routePath,
                 translationRegistry, enableSwagger, router>>

\* a route is one Handle-wrapped handler, or a middleware followed by a
\* handler.  The handler is reached only by a middleware all of whose calls
\* succeed: either the calls of the middleware are drawn, or those of the
\* handler behind a middleware without a request type.
NextRequests ==
  \/ \E t \in Translations : RegisterTranslation(t[1], t[2], t[3])
  \/ \E request \in Requests, t \in {"BodyReq", "PtrBodyReq", "nil", "string"},
        in \in HandlerInputs :
       ServeHTTP(request, <<Handler("Handle", t, "Res")>>, <<in>>)
  \/ \E request \in Requests,
        d \in { d \in {"HeaderReq", "nil"} \X {"BodyReq", "nil"} \X HandlerInputs
                        \X HandlerInputs :
                  \/ d[4] = AllOk /\ d[2] = "BodyReq"
                  \/ d[3] = AllOk /\ d[1] = "nil" } :
       ServeHTTP(request, <<Handler("Middleware", d[1], "nil"),
                           Handler("Handle", d[2], "Res")>>, <<d[3], d[4]>>)
  \/ \E g \in Goroutines : Translate(g)
  \/ \E g \in Goroutines : Respond(g)

SpecRequests == InitRequests /\ [][NextRequests]_vars

(***************************************************************************)
(* App: routes and the swagger switch (app.go): specification SpecApp      *)
(***************************************************************************)
\* the App as its methods read and write it.  registered lists the routes
\* the call handed to the gin router, status tells whether it panicked.
AppState(enabled, rtr, hs, pths, reg) ==
  [enableSwagger |-> enabled, router |-> rtr, handlers |-> hs, paths |-> pths,
   reg |-> reg, registered |-> <<>>, status |-> "ok"]

\* a.router.GET(path, handler), ...: gin panics on a route it already has
routerHandle(a, method, path, handler) ==
  IF <<method, path>> \in DOMAIN a.router
  THEN [a EXCEPT !.registered = Append(@, <<method, path>>), !.status = "panic"]
  ELSE [a EXCEPT !.registered = Append(@, <<method, path>>),
                 !.router = MapPut(@, <<method, path>>, handler)]

\* lookupHandlerTypes(handler): only what Handle or Middleware made is found
lookupHandlerTypes(handler) == handler.wrap \in {"Handle", "Middleware"}

\* a.captureHandlerInfo(method, path, handler); a.swagger is non-nil exactly
\* when a.enableSwagger is set
captureInfo(a, method, path, handler) ==
  IF ~lookupHandlerTypes(handler) THEN a
  ELSE IF ~a.enableSwagger
  THEN [a EXCEPT !.handlers = MapPut(@, <<method, path>>,
                                     HandlerInfo(method, path, handler.reqType,
                                                 handler.resType))]
  ELSE LET added(r) ==
             [a EXCEPT !.handlers = MapPut(@, <<method, path>>,
                                           HandlerInfo(method, path, handler.reqType,
                                                       handler.resType)),
                       !.paths = r.paths, !.reg = r.reg, !.status = r.status]
       IN added(addEndpoint(method, path, TypeOf(handler.reqType),
                            TypeOf(handler.resType), a.paths, a.reg))

\* a route method that records every handler, swagger enabled or not
route_AlwaysCapture(a, method, path, handler) ==
  LET routed(b) == IF b.status # "ok" THEN b ELSE routerHandle(b, method, path, handler)
  IN routed(captureInfo(a, method, path, handler))

\* a.GET(path, handler), a.POST, a.PUT, a.DELETE, a.PATCH
route(a, method, path, handler) ==
  LET routed(b) == IF b.status # "ok" THEN b ELSE routerHandle(b, method, path, handler)
  IN IF a.enableSwagger
     THEN routed(captureInfo(a, method, path, handler))
     ELSE routerHandle(a, method, path, handler)

\* a switch that is never found off
swaggerDisabled_Never(a) == FALSE

\* the test that opens EnableSwaggerUI
swaggerDisabled(a) == ~a.enableSwagger

\* a.EnableSwaggerUI(path)
enableSwaggerUI(a, path) ==
  LET ui(b) == IF b.status # "ok" \/ path = pOpenAPI THEN b
               ELSE route(b, "GET", path, UIHandler)
  IN IF swaggerDisabled(a) THEN [a EXCEPT !.status = "panic"]
     ELSE IF <<"GET", pOpenAPI>> \notin DOMAIN a.handlers
     THEN ui(route(a, "GET", pOpenAPI, OpenAPIHandler))
     ELSE ui(a)

\* a.WithSwagger(title, version): a new generator, then the UI at /docs
withSwagger(a) ==
  enableSwaggerUI([a EXCEPT !.enableSwagger = TRUE, !.paths = EmptyMap, !.reg = EmptyMap],
                  pDocs)

\* the routes the application registers
AppRoutes ==
  { [method |-> "GET", path |-> pUsersId, handler |-> Handler("Handle", "GetReq", "Res")],
    [method |-> "POST", path |-> pMerge, handler |-> Handler("Handle", "BodyReq", "H")],
    [method |-> "PUT", path |-> pUsersId, handler |-> Handler("Handle", "BodyReq", "Res")],
    [method |-> "DELETE", path |-> pMerge, handler |-> Handler("func", "nil", "nil")],
    [method |-> "PATCH", path |-> pMerge, handler |-> Handler("Middleware", "HeaderReq", "nil")],
    [method |-> "GET", path |-> pOpenAPI, handler |-> Handler("Handle", "nil", "Res")] }

\* the paths the Swagger UI is asked at
UIPaths == {pDocs, <<"/", "u", "i">>, pOpenAPI}

\* New()
InitApp ==
  /\ paths = EmptyMap
  /\ schemas = EmptyMap
  /\ handlers = EmptyMap
  /\ last = NoCall
  /\ prev = NoCall
  /\ doc = <<>>
  /\ ncalls = 0
  /\ shape = NilType
  /\ routePath = <<>>
  /\ inflight = [g \in Goroutines |-> Idle]
  /\ translationRegistry = EmptyMap
  /\ ctx = NoContext
  /\ enableSwagger = FALSE
  /\ router = EmptyMap

\* the App a call starts from
ThisApp == AppState(enableSwagger, router, handlers, paths, schemas)

\* the App is left as the call a returned or panicked
Returned(a, call, method, path, handler) ==
  /\ enableSwagger' = a.enableSwagger
  /\ router' = a.router
  /\ handlers' = a.handlers
  /\ paths' = a.paths
  /\ schemas' = a.reg
  /\ last' = Call(call, method, path, handler.reqType, handler.resType, a.status,
                  a.registered)
  /\ prev' = last
  /\ ncalls' = ncalls + 1
  /\ UNCHANGED <<doc, shape, routePath, inflight, translationRegistry, ctx>>

\* a.GET(path, handler), a.POST, a.PUT, a.DELETE, a.PATCH
Route(rt) ==
  /\ ncalls < MaxCalls
  /\ Returned(route(ThisApp, rt.method, rt.path, rt.handler), "Route", rt.method,
              rt.path, rt.handler)

\* a.WithSwagger(title, version)
WithSwagger ==
  /\ ncalls < MaxCalls
  /\ Returned(withSwagger(ThisApp), "WithSwagger", "", <<>>, OpenAPIHandler)

\* a.EnableSwaggerUI(path)
EnableSwaggerUI(path) ==
  /\ ncalls < MaxCalls
  /\ Returned(enableSwaggerUI(ThisApp, path), "EnableSwaggerUI", "GET", path, UIHandler)

\* a request for /openapi.json served by the function EnableSwaggerUI
\* registered: a.swagger.Generate(a.handlers)
ServeOpenAPI ==
  /\ <<"GET", pOpenAPI>> \in DOMAIN router
  /\ router[<<"GET", pOpenAPI>>] = OpenAPIHandler
  /\ ncalls < MaxCalls
  /\ \E infos \in RangeOrders(handlers) :
       \E r \in {addAll(infos, 1, paths, schemas)} :
          /\ paths' = r.paths
          /\ schemas' = r.reg
          /\ doc' = IF r.status = "ok" THEN MarshalSpec(r.paths, r.reg) ELSE <<>>
          /\ last' = Call("Generate", "", <<>>, "nil", "nil", r.status, <<>>)
  /\ prev' = last
  /\ ncalls' = ncalls + 1
  /\ UNCHANGED <<handlers, shape, routePath, inflight,
                 translationRegistry, ctx, enableSwagger, router>>

NextApp ==
  \/ \E rt \in AppRoutes : Route(rt)
  \/ WithSwagger
  \/ \E path \in UIPaths : EnableSwaggerUI(path)
  \/ ServeOpenAPI

SpecApp == InitApp /\ [][NextApp]_vars

(***************************************************************************)
(* Vocabulary of the properties                                            *)
(***************************************************************************)
\* the binding name of a tag: its segment before the first comma; an absent
\* tag, the tag "-" and an empty segment bind nothing
BindingName(tag) == IF tag = <<>> \/ tag = sDash THEN <<>> ELSE Split(tag, ",")[1]

\* the validation rule set contains the rule named rule
HasRule(validateTag, rule) ==
  /\ validateTag # <<>>
  /\ LET rules == Split(validateTag, ",")
     IN \E i \in 1..Len(rules) : Split(rules[i], "=")[1] = rule

Deref(t) == IF t.kind = "ptr" THEN TypeOf(t.elem) ELSE t

\* a single file or an array of files: the types generateSchema gives the
\* format "binary"
IsBinaryUpload(t) ==
  \/ isFileHeader(Deref(t))
  \/ Deref(t).kind = "slice" /\ isFileHeader(Deref(TypeOf(Deref(t).elem)))

HasBinaryUpload(t) ==
  \E i \in 1..Len(t.fields) : IsBinaryUpload(TypeOf(t.fields[i].type))

Registration(c) == c.call \in {"AddEndpoint", "captureHandlerInfo"}

\* the operation stored for the route of the call c
StoredOperation(c) ==
  IF c.path \in DOMAIN paths /\ c.method \in StoredMethods
  THEN paths[c.path][c.method]
  ELSE <<>>

(***************************************************************************)
(* C1                                                                      *)
(***************************************************************************)
\* C1: generateSchema on a struct shape, self-referential ones included,
\* returns a schema of type "object" (it does not recurse until the stack
\* is exhausted).
C1_SchemaSynthesisTerminates ==
  (last.call = "generateSchema" /\ TypeOf(last.req).kind = "struct")
    => (last.status = "ok" /\ last.ret.type = "object")

(***************************************************************************)
(* C2                                                                      *)
(***************************************************************************)
\* a shape whose fields are header- or query-tagged only
HeaderOrQueryOnly(t) ==
  /\ t.kind = "struct"
  /\ Len(t.fields) > 0
  /\ \A i \in 1..Len(t.fields) :
       /\ BindingName(t.fields[i].json) = <<>>
       /\ BindingName(t.fields[i].header) # <<>> \/ BindingName(t.fields[i].form) # <<>>

\* a shape with a body-tagged field
HasBodyField(t) ==
  /\ t.kind = "struct"
  /\ \E i \in 1..Len(t.fields) : BindingName(t.fields[i].json) # <<>>

\* C2: when a non-GET/HEAD route got a header/query-only shape and then a
\* body shape, its operation has both parameters and a non-empty requestBody.
C2_MergedOperation ==
  ( /\ Registration(prev) /\ prev.status = "ok"
    /\ Registration(last) /\ last.status = "ok"
    /\ prev.method = last.method /\ prev.path = last.path
    /\ last.method \in StoredMethods \ {"GET"}
    /\ HeaderOrQueryOnly(TypeOf(prev.req))
    /\ HasBodyField(TypeOf(last.req)) )
  => /\ StoredOperation(last) # <<>>
     /\ StoredOperation(last)[1].parameters # <<>>
     /\ StoredOperation(last)[1].requestBody # <<>>
     /\ DOMAIN StoredOperation(last)[1].requestBody[1].content # {}

(***************************************************************************)
(* C3                                                                      *)
(***************************************************************************)
\* C3: a field without path binding and with a non-empty header name
\* contributes one parameter, in "header", of that name, required exactly
\* when its rules contain `required`.
C3_HeaderParameter ==
  (last.call = "generateParameters" /\ shape.kind = "struct")
    => /\ last.status = "ok"
       /\ \A i \in 1..Len(shape.fields) :
            LET f == shape.fields[i]
            IN (BindingName(f.uri) = <<>> /\ BindingName(f.header) # <<>>)
                 => /\ Len(last.ret.perField[i]) = 1
                    /\ last.ret.perField[i][1].in = "header"
                    /\ last.ret.perField[i][1].name = BindingName(f.header)
                    /\ last.ret.perField[i][1].required = HasRule(f.validate, sRequired)

(***************************************************************************)
(* C4                                                                      *)
(***************************************************************************)
BothPathAndForm(f) == BindingName(f.uri) # <<>> /\ BindingName(f.form) # <<>>

\* C4: a field with a path tag and a form tag contributes exactly one
\* parameter, located at "path".
C4_PathWinsOverForm ==
  (last.call = "generateParameters" /\ shape.kind = "struct")
    => /\ last.status = "ok"
       /\ \A i \in 1..Len(shape.fields) :
            BothPathAndForm(shape.fields[i])
              => /\ Len(last.ret.perField[i]) = 1
                 /\ last.ret.perField[i][1].in = "path"
                 /\ last.ret.perField[i][1].name = BindingName(shape.fields[i].uri)

\* generateParameters ran on a shape with a field tagged uri:"id" form:"q"
\* and a second, query-only field
C4_Witness ==
  /\ last.call = "generateParameters"
  /\ last.status = "ok"
  /\ shape.kind = "struct"
  /\ \E i \in 1..Len(shape.fields) :
       /\ BothPathAndForm(shape.fields[i])
       /\ BindingName(shape.fields[i].uri) # BindingName(shape.fields[i].form)
  /\ \E i \in 1..Len(last.ret.list) : last.ret.list[i].in = "query"

(***************************************************************************)
(* C5                                                                      *)
(***************************************************************************)
\* the operation the shapes of the call c produce on their own
OwnOperation(c) ==
  newOperation(c.method, c.path, TypeOf(c.req), TypeOf(c.res), EmptyMap).ret

\* C5: after the same (method, path) was registered twice with different
\* shapes, the stored operation is the one the second call's shapes produce.
C5_SecondRegistrationOnly ==
  ( /\ Registration(prev) /\ prev.status = "ok"
    /\ Registration(last) /\ last.status = "ok"
    /\ prev.method = last.method /\ prev.path = last.path
    /\ last.method \in StoredMethods
    /\ <<prev.req, prev.res>> # <<last.req, last.res>> )
  => StoredOperation(last) = <<OwnOperation(last)>>

(***************************************************************************)
(* C6                                                                      *)
(***************************************************************************)
\* C6: a Generate that follows a Generate at once returns the same document.
C6_GenerateIdempotent ==
  [][ ( /\ last.call = "Generate" /\ last.status = "ok"
        /\ last'.call = "Generate" /\ last'.status = "ok" )
      => doc' = doc ]_vars

\* two Generate calls in a row on a generator with a documented GET route
\* that has parameters
C6_Witness ==
  /\ prev.call = "Generate" /\ prev.status = "ok"
  /\ last.call = "Generate" /\ last.status = "ok"
  /\ DOMAIN handlers # {}
  /\ \E p \in DOMAIN paths : paths[p].GET # <<>> /\ paths[p].GET[1].parameters # <<>>
  /\ DOMAIN schemas # {}
  /\ pUsersId \in DOMAIN doc.paths

(***************************************************************************)
(* C7                                                                      *)
(***************************************************************************)
\* C7: a shape with a binary-upload field gets exactly multipart/form-data.
C7_FileForcesMultipart ==
  ( /\ last.call = "detectSwaggerContentTypes"
    /\ shape.kind = "struct"
    /\ HasBinaryUpload(shape) )
  => (last.status = "ok" /\ last.ret = <<"multipart/form-data">>)

(***************************************************************************)
(* C8                                                                      *)
(***************************************************************************)
\* C8: a shape without binary-upload field and with a non-empty form name
\* gets form-urlencoded, then application/json exactly when some field has a
\* non-empty json name.
C8_FormThenJSON ==
  ( /\ last.call \in {"detectSwaggerContentTypes", "detectContentTypes"}
    /\ shape.kind = "struct"
    /\ ~HasBinaryUpload(shape)
    /\ \E i \in 1..Len(shape.fields) : BindingName(shape.fields[i].form) # <<>> )
  => /\ last.status = "ok"
     /\ last.ret = <<"application/x-www-form-urlencoded">>
                     \o (IF \E i \in 1..Len(shape.fields) :
                               BindingName(shape.fields[i].json) # <<>>
                         THEN <<"application/json">> ELSE <<>>)

(***************************************************************************)
(* C9                                                                      *)
(***************************************************************************)
\* C9: on a request shape that is not a struct, detectSwaggerContentTypes
\* returns [application/json] and generateParameters returns no parameter.
C9_NonStructDegrades ==
  (shape.kind \notin {"struct", "nil"})
  => /\ last.call = "detectSwaggerContentTypes"
          => (last.status = "ok" /\ last.ret = <<"application/json">>)
     /\ last.call = "generateParameters"
          => (last.status = "ok" /\ last.ret.list = <<>>)

(***************************************************************************)
(* C10                                                                     *)
(***************************************************************************)
\* C10: every AddEndpoint call completes, the path is in the document, and
\* the stored operation has a 200 response and the fixed 400 response, also
\* when the response shape is nil.
C10_AddEndpointCompletes ==
  last.call = "AddEndpoint"
  => /\ last.status = "ok"
     /\ last.path \in DOMAIN paths
     /\ last.method \in StoredMethods
          => /\ StoredOperation(last) # <<>>
             /\ "200" \in DOMAIN StoredOperation(last)[1].responses
             /\ "400" \in DOMAIN StoredOperation(last)[1].responses
             /\ StoredOperation(last)[1].responses["400"].content["application/json"].schema
                  = ErrorSchema

(***************************************************************************)
(* C11                                                                     *)
(***************************************************************************)
\* the integer kinds of Go, signed and unsigned, of every width
AllIntegerKinds ==
  IntKinds \cup {"uint", "uint8", "uint16", "uint32", "uint64"}

PrimitiveKinds == {"string", "bool"} \cup AllIntegerKinds \cup FloatKinds

\* the schema the mapping table gives a primitive kind
PrimitiveSchema(kind) ==
  IF kind = "string" THEN Sch("string", "")
  ELSE IF kind \in AllIntegerKinds THEN Sch("integer", "int64")
  ELSE IF kind \in FloatKinds THEN Sch("number", "double")
  ELSE Sch("boolean", "")

\* C11: generateSchema maps string, every integer kind (signed or unsigned),
\* every floating kind and bool, and a pointer to one of them, to the schema
\* of the mapping table.
C11_PrimitiveMapping ==
  (last.call = "generateSchema" /\ Deref(shape).kind \in PrimitiveKinds)
    => (last.status = "ok" /\ last.ret = PrimitiveSchema(Deref(shape).kind))

(***************************************************************************)
(* C12                                                                     *)
(***************************************************************************)
\* the name a field resolves to in a struct schema: its body name, else its
\* form name
ResolvedName(f) ==
  IF BindingName(f.json) # <<>> THEN BindingName(f.json) ELSE BindingName(f.form)

\* a slice whose elements are a named struct (or pointers to one) that is not
\* a file
IsSliceOfNamedStruct(t) ==
  /\ t.kind = "slice"
  /\ Deref(TypeOf(t.elem)).kind = "struct"
  /\ Deref(TypeOf(t.elem)).name # ""
  /\ ~isFileHeader(Deref(TypeOf(t.elem)))

\* C12: in the schema of a struct, a field that is a slice of a named struct
\* is an array whose items schema is the element struct's schema, with a
\* non-empty properties map.
C12_SliceItemsExpanded ==
  (last.call = "generateSchema" /\ last.status = "ok" /\ TypeOf(last.req).kind = "struct")
    => \A i \in 1..Len(TypeOf(last.req).fields) :
         LET f == TypeOf(last.req).fields[i]
         IN (ResolvedName(f) # <<>> /\ IsSliceOfNamedStruct(TypeOf(f.type)))
              => /\ ResolvedName(f) \in DOMAIN last.ret.properties
                 /\ last.ret.properties[ResolvedName(f)].type = "array"
                 /\ last.ret.properties[ResolvedName(f)].items # <<>>
                 /\ DOMAIN last.ret.properties[ResolvedName(f)].items[1].properties # {}

(***************************************************************************)
(* C13                                                                     *)
(***************************************************************************)
\* no other field of t resolves to the name of field i
NameUnique(t, i) ==
  \A j \in 1..Len(t.fields) :
     j # i => ResolvedName(t.fields[j]) # ResolvedName(t.fields[i])

\* C13: in the schema of a struct, the resolved name of a field is in the
\* required list exactly when its rules contain `required`, its property has
\* format "email" exactly when its rules contain `email`, and a field with
\* rules has the description "Validation: " followed by the rule text.
C13_ValidationRules ==
  (last.call = "generateSchema" /\ last.status = "ok" /\ shape.kind = "struct")
    => \A i \in 1..Len(shape.fields) :
         LET f == shape.fields[i]
             n == ResolvedName(f)
         IN (n # <<>> /\ NameUnique(shape, i) /\ n \in DOMAIN last.ret.properties)
              => /\ contains(last.ret.required, n) <=> HasRule(f.validate, sRequired)
                 /\ (last.ret.properties[n].format = "email") <=> HasRule(f.validate, sEmail)
                 /\ f.validate # <<>>
                      => last.ret.properties[n].description = sValidationPrefix \o f.validate

(***************************************************************************)
(* C14                                                                     *)
(***************************************************************************)
\* the positions of the path parameters named n in the list ps
PathParamsNamed(ps, n) == {i \in 1..Len(ps) : ps[i].in = "path" /\ ps[i].name = n}

\* C14: for every GET operation, each `:name` placeholder of the route path
\* has exactly one path parameter of that name, and every path parameter
\* names a placeholder of the route.
C14_PlaceholdersMatchPathParameters ==
  \A p \in DOMAIN paths :
     paths[p].GET # <<>>
       => /\ \A k \in 1..Len(extractPathParameters(p)) :
               Cardinality(PathParamsNamed(paths[p].GET[1].parameters,
                                           extractPathParameters(p)[k])) = 1
          /\ \A i \in 1..Len(paths[p].GET[1].parameters) :
               paths[p].GET[1].parameters[i].in = "path"
                 => contains(extractPathParameters(p), paths[p].GET[1].parameters[i].name)

(***************************************************************************)
(* C15                                                                     *)
(***************************************************************************)
\* the fields of a struct type have pairwise different Go names
FieldNamesDistinct(t) ==
  \A i, j \in 1..Len(t.fields) : i # j => t.fields[i].name # t.fields[j].name

\* C15: the parameter list never has two entries with the same name and
\* location, whatever tags the fields carry.
C15_ParametersDeduplicated ==
  ( /\ last.call = "generateParameters" /\ last.status = "ok"
    /\ shape.kind = "struct" /\ FieldNamesDistinct(shape) )
  => \A i, j \in 1..Len(last.ret.list) :
       i # j => <<last.ret.list[i].name, last.ret.list[i].in>>
                  # <<last.ret.list[j].name, last.ret.list[j].in>>

(***************************************************************************)
(* C16                                                                     *)
(***************************************************************************)
\* C16: a binary-upload field contributes no parameter, also when it has a
\* form tag.
C16_NoBinaryUploadParameter ==
  (last.call = "generateParameters" /\ last.status = "ok" /\ shape.kind = "struct")
    => \A i \in 1..Len(shape.fields) :
         IsBinaryUpload(TypeOf(shape.fields[i].type)) => last.ret.perField[i] = <<>>

(***************************************************************************)
(* C17                                                                     *)
(***************************************************************************)
\* C17: every path parameter is required; a query parameter is required
\* exactly when the rules of its field contain the rule `required`.
C17_RequiredFlags ==
  (last.call = "generateParameters" /\ last.status = "ok" /\ shape.kind = "struct")
    => \A i \in 1..Len(shape.fields) :
         \A k \in 1..Len(last.ret.perField[i]) :
            /\ last.ret.perField[i][k].in = "path" => last.ret.perField[i][k].required
            /\ last.ret.perField[i][k].in = "query"
                 => (last.ret.perField[i][k].required
                       <=> HasRule(shape.fields[i].validate, sRequired))

(***************************************************************************)
(* C18                                                                     *)
(***************************************************************************)
\* C18: a call leaves every entry of the component registry as it was, and a
\* synthesis of a struct whose name is in the registry (by generateSchema, or
\* for the 200 response of a registration) returns the stored schema.
C18_RegistryIsMemo ==
  [][ /\ \A n \in DOMAIN schemas : n \in DOMAIN schemas' /\ schemas'[n] = schemas[n]
      /\ ( /\ last'.call = "generateSchema" /\ last'.status = "ok"
           /\ TypeOf(last'.req).kind = "struct"
           /\ SchemaName(TypeOf(last'.req)) \in DOMAIN schemas )
         => last'.ret = schemas[SchemaName(TypeOf(last'.req))]
      /\ ( /\ Registration(last') /\ last'.status = "ok"
           /\ last'.method \in StoredMethods
           /\ TypeOf(last'.res).kind = "struct"
           /\ SchemaName(TypeOf(last'.res)) \in DOMAIN schemas )
         => paths'[last'.path][last'.method][1].responses["200"]
                .content["application/json"].schema
              = schemas[SchemaName(TypeOf(last'.res))]
    ]_vars

\* two anonymous request shapes were registered one after the other, and the
\* registry still holds the schema of the first under "Anonymous"
C18_Witness ==
  /\ Registration(prev) /\ prev.status = "ok" /\ prev.req = "AnonName"
  /\ Registration(last) /\ last.status = "ok" /\ last.req = "AnonOK"
  /\ "Anonymous" \in DOMAIN schemas
  /\ sName \in DOMAIN schemas["Anonymous"].properties
  /\ "Res" \in DOMAIN schemas

(***************************************************************************)
(* C19                                                                     *)
(***************************************************************************)
\* C19: of the goroutines that call AddEndpoint or Generate, at most one is
\* on the component registry or the route-to-operation map at any time.
C19_SerializedAccess ==
  \A g1, g2 \in Goroutines :
     g1 # g2 => ~(MapsOf(inflight[g1].pc) # {} /\ MapsOf(inflight[g2].pc) # {})

(***************************************************************************)
(* C20                                                                     *)
(***************************************************************************)
\* a route registered through App.GET, POST, PUT, DELETE or PATCH with a
\* handler made by Handle (a handler made by Middleware has no response type)
HandleRoute(h) == h.method \in StoredMethods /\ h.resType # "nil"

\* C20: when every registered route is a Handle route, a document request
\* succeeds and the document has every route registered so far under its
\* path and method.
C20_DocumentHasAllRoutes ==
  (last.call = "Generate" /\ \A k \in DOMAIN handlers : HandleRoute(handlers[k]))
    => /\ last.status = "ok"
       /\ \A k \in DOMAIN handlers :
            /\ handlers[k].path \in DOMAIN doc.paths
            /\ handlers[k].method \in DOMAIN doc.paths[handlers[k].path]

(***************************************************************************)
(* Vocabulary of the request properties                                    *)
(***************************************************************************)
BindingOps ==
  {"ShouldBind", "ShouldBindBodyWith", "ShouldBindQuery", "ShouldBindUri",
   "ShouldBindHeader"}

\* the closure at position i of the chain was entered
Entered(c, i) == \E k \in 1..Len(c.log) : c.log[k].h = i /\ c.log[k].result = "enter"

\* a binding call or the validation of the closure at position i failed
StepFailed(c, i) ==
  \E k \in 1..Len(c.log) :
    /\ c.log[k].h = i
    /\ \/ c.log[k].op \in BindingOps /\ c.log[k].result = "err"
       \/ c.log[k].op = "validateStruct" /\ c.log[k].result.kind # "nil"

\* the user's function of the closure at position i was called
Invoked(c, i) == \E k \in 1..Len(c.log) : c.log[k].h = i /\ c.log[k].op = "fn"

\* the user's function of the closure at position i returned nil
ReturnedNil(c, i) ==
  \E k \in 1..Len(c.log) :
    c.log[k].h = i /\ c.log[k].op = "fn" /\ c.log[k].result.kind = "nil"

\* the request was answered once, with this status
OnlyResponse(c, status) == Len(c.writes) = 1 /\ c.writes[1].status = status

\* the request served last went through a chain of these wrappers
Served(wraps) ==
  /\ last.call = "ServeHTTP"
  /\ Len(last.ret) = Len(wraps)
  /\ \A i \in 1..Len(wraps) : last.ret[i].wrap = wraps[i]

\* the status the error err of a user's function is answered with
StatusOfError(err) == IF err.kind = "HTTPError" THEN err.status ELSE 500

(***************************************************************************)
(* C21                                                                     *)
(***************************************************************************)
\* C21: when a binding call (body, query, path, header) or the validation of
\* a Handle-wrapped handler fails, the request is answered with 400 and the
\* user's function is not called.
C21_FailedStepIs400 ==
  (Served(<<"Handle">>) /\ StepFailed(ctx, 1))
    => (OnlyResponse(ctx, 400) /\ ~Invoked(ctx, 1))

\* a POST whose body bound, whose validation failed, answered with 400
C21_Witness ==
  /\ Served(<<"Handle">>) /\ StepFailed(ctx, 1)
  /\ ctx.request.method = "POST" /\ ctx.request.contentLength # 0
  /\ \E k \in 1..Len(ctx.log) :
       ctx.log[k].op = "validateStruct" /\ ctx.log[k].result.kind = "ValidationErrors"
  /\ OnlyResponse(ctx, 400)

(***************************************************************************)
(* C22                                                                     *)
(***************************************************************************)
\* C22: once the user's function of a Handle-wrapped handler returned, the
\* status is 200 for no error, the Status of an HTTPError, 500 for any other
\* error.
C22_StatusOfResult ==
  Served(<<"Handle">>) =>
    \A k \in 1..Len(ctx.log) :
      ctx.log[k].op = "fn" =>
        OnlyResponse(ctx, IF ctx.log[k].result.kind = "nil" THEN 200
                          ELSE StatusOfError(ctx.log[k].result))

\* the user's function returned NotFound and the answer is 404
C22_Witness ==
  /\ Served(<<"Handle">>)
  /\ \E k \in 1..Len(ctx.log) :
       /\ ctx.log[k].op = "fn" /\ ctx.log[k].result.kind = "HTTPError"
       /\ ctx.log[k].result.status = 404
  /\ OnlyResponse(ctx, 404)

(***************************************************************************)
(* C23                                                                     *)
(***************************************************************************)
\* C23: behind a middleware the handler runs exactly when every binding call
\* and the validation of the middleware succeeded and its function returned
\* nil; otherwise the chain is aborted, the only response is the failure's
\* (400, the HTTPError's status, or 500) and the handler does not run.
C23_HandlerBehindMiddleware ==
  Served(<<"Middleware", "Handle">>) =>
    /\ Entered(ctx, 2) <=> (~StepFailed(ctx, 1) /\ ReturnedNil(ctx, 1))
    /\ StepFailed(ctx, 1) => (ctx.index >= abortIndex /\ OnlyResponse(ctx, 400))
    /\ \A k \in 1..Len(ctx.log) :
         (ctx.log[k].h = 1 /\ ctx.log[k].op = "fn" /\ ctx.log[k].result.kind # "nil")
           => ( /\ ctx.index >= abortIndex
                /\ OnlyResponse(ctx, StatusOfError(ctx.log[k].result)) )

\* the middleware's header binding failed: 400, chain aborted, no handler
C23_Witness ==
  /\ Served(<<"Middleware", "Handle">>)
  /\ \E k \in 1..Len(ctx.log) :
       ctx.log[k].h = 1 /\ ctx.log[k].op = "ShouldBindHeader" /\ ctx.log[k].result = "err"
  /\ OnlyResponse(ctx, 400)
  /\ ~Entered(ctx, 2)

(***************************************************************************)
(* C24                                                                     *)
(***************************************************************************)
\* the built-in English message of a failed rule
BuiltInMessage(e) ==
  CASE e.tag = "required" -> <<e.field, " is required">>
    [] e.tag = "min" -> <<e.field, " must be at least ", e.param, " characters">>
    [] OTHER -> <<e.field, " failed validation for ", e.tag>>

\* the message the claim gives a failed rule on a request
ClaimedMessage(reg, e, acceptLanguage) ==
  LET lang == IF acceptLanguage = "" THEN "en" ELSE acceptLanguage
  IN IF lang \in DOMAIN reg /\ e.tag \in DOMAIN reg[lang]
     THEN Sprintf(reg[lang][e.tag], IF e.param = "" THEN <<e.field>> ELSE <<e.field, e.param>>)
     ELSE BuiltInMessage(e)

\* the pairs (language, tag) of a registry
Pairs(reg) == { <<l, t>> : l \in DOMAIN reg, t \in {"required", "min"} } \cap
              UNION { { <<l, t>> : t \in DOMAIN reg[l] } : l \in DOMAIN reg }

\* C24: a failed rule is reported with the translation registered for the
\* request's language (Accept-Language, "en" when absent) and the rule tag
\* at the moment its message is formed, with the built-in English message
\* when there is none; each translate call reads the registry as it is then,
\* so a registration made while a request is served shows in the messages
\* formed after it; RegisterTranslation sets its pair and leaves every other
\* pair as it was.
C24_TranslatedMessages ==
  [][ /\ last'.call = "RegisterTranslation"
         => /\ Pairs(translationRegistry')
                 = Pairs(translationRegistry) \cup {<<last'.ret[1], last'.ret[2]>>}
            /\ translationRegistry'[last'.ret[1]][last'.ret[2]] = last'.ret[3]
            /\ \A p \in Pairs(translationRegistry) \ {<<last'.ret[1], last'.ret[2]>>} :
                 translationRegistry'[p[1]][p[2]] = translationRegistry[p[1]][p[2]]
      /\ \A g \in Goroutines :
           (inflight[g].pc = "serving" /\ inflight'[g].pc = "serving"
              /\ inflight'[g] # inflight[g])
             => inflight'[g].op = Append(inflight[g].op, translationRegistry)
      /\ \A g \in Goroutines :
           (inflight[g].pc = "serving" /\ last'.call = "ServeHTTP")
             => \A k \in 1..Len(ctx'.log) :
                  ctx'.log[k].op = "translate"
                    => /\ ctx'.log[k].result.reads = inflight[g].op
                       /\ ctx'.writes[1].body.error
                            = <<"Validation failed: ", "validation failed: ">>
                              \o Join([i \in 1..Len(ctx'.log[k - 1].result.errors) |->
                                         ClaimedMessage(inflight[g].op[i],
                                                        ctx'.log[k - 1].result.errors[i],
                                                        ctx'.request.acceptLanguage)],
                                      "; ", 1)
    ]_vars

\* a request in "jp" failed two rules; the translation of the second rule
\* was registered after the message of the first was formed: the first
\* message is the built-in one, the second the translation
C24_Witness ==
  /\ last.call = "ServeHTTP" /\ prev.call = "RegisterTranslation"
  /\ ctx.request.acceptLanguage = "jp"
  /\ \E k \in 1..Len(ctx.log) :
       /\ ctx.log[k].op = "translate"
       /\ Len(ctx.log[k].result.reads) = 2
       /\ ctx.log[k].result.reads[1] = EmptyMap
       /\ ctx.log[k].result.reads[2] = translationRegistry
  /\ OnlyResponse(ctx, 400)
  /\ ctx.writes[1].body.error
       = <<"Validation failed: ", "validation failed: ", "Name", " is required", "; ",
           "Age", " ga mijikai", "%!(EXTRA ", "string=", "18", ")">>

(***************************************************************************)
(* C25                                                                     *)
(***************************************************************************)
\* C25: EnableSwaggerUI on an App whose swagger is not enabled panics and
\* hands no route to the router.
C25_DisabledUIPanics ==
  [][ (last'.call = "EnableSwaggerUI" /\ ~enableSwagger)
        => (last'.status = "panic" /\ last'.ret = <<>> /\ router' = router) ]_vars

\* EnableSwaggerUI panicked on an App that has a route and no swagger
C25_Witness ==
  /\ last.call = "EnableSwaggerUI" /\ last.status = "panic"
  /\ ~enableSwagger
  /\ DOMAIN router # {}
  /\ <<"GET", pOpenAPI>> \notin DOMAIN router

(***************************************************************************)
(* C27                                                                     *)
(***************************************************************************)
\* C27: EnableSwaggerUI on an App whose router already has GET /openapi.json
\* does not hand that route to the router again.
C27_OpenAPIRegisteredOnce ==
  [][ (last'.call = "EnableSwaggerUI" /\ <<"GET", pOpenAPI>> \in DOMAIN router)
        => \A i \in 1..Len(last'.ret) : last'.ret[i] # <<"GET", pOpenAPI>> ]_vars

(***************************************************************************)
(* C29                                                                     *)
(***************************************************************************)
\* the call made by the step is a route method for the route k
RoutesKey(c, k) == c.call = "Route" /\ <<c.method, c.path>> = k

\* the document d has an operation for the route k
InDocument(d, k) ==
  /\ d # <<>>
  /\ k[2] \in DOMAIN d.paths
  /\ k[1] \in DOMAIN d.paths[k[2]]

C26_ResolvedProperties ==
  (last.call = "generateSchema" /\ last.status = "ok" /\ shape.kind = "struct")
    => DOMAIN last.ret.properties
         = {ResolvedName(shape.fields[i]) : i \in 1..Len(shape.fields)} \ {<<>>}

(***************************************************************************)
(* C28                                                                     *)
(***************************************************************************)
\* the resolved names of the fields of the struct t
ResolvedNames(t) == {ResolvedName(t.fields[i]) : i \in 1..Len(t.fields)} \ {<<>>}

\* C28: the operation a registration stores has, in its 200 response and in
\* each content type of its request body, a schema whose property names are
\* the resolved field names of the shape given to that call, whatever shapes
\* were registered before under the same name.
C28_SchemasOfOwnShapes ==
  (Registration(last) /\ last.status = "ok" /\ last.method \in StoredMethods)
    => /\ TypeOf(last.res).kind = "struct"
            => DOMAIN StoredOperation(last)[1].responses["200"]
                        .content["application/json"].schema.properties
                 = ResolvedNames(TypeOf(last.res))
       /\ (TypeOf(last.req).kind = "struct" /\ StoredOperation(last)[1].requestBody # <<>>)
            => \A ct \in DOMAIN StoredOperation(last)[1].requestBody[1].content :
                 DOMAIN StoredOperation(last)[1].requestBody[1].content[ct].schema.properties
                   = ResolvedNames(TypeOf(last.req))

(***************************************************************************)
(* C30                                                                     *)
(***************************************************************************)
\* C30: a registration with GET, POST, PUT, DELETE or PATCH stores its
\* operation under the method and leaves the other methods of the path and
\* every other path as they were; a registration with another method (HEAD)
\* builds the operation, so that the response shape is in the registry,
\* creates the path entry if there was none, stores nothing under it and
\* leaves every operation stored as it was.
C30_OnlyFiveMethodsStored ==
  [][ (Registration(last') /\ last'.status = "ok")
        => /\ DOMAIN paths' = (DOMAIN paths) \cup {last'.path}
           /\ \A p \in (DOMAIN paths) \ {last'.path} : paths'[p] = paths[p]
           /\ \A m \in StoredMethods \ {last'.method} :
                paths'[last'.path][m]
                  = IF last'.path \in DOMAIN paths THEN paths[last'.path][m] ELSE <<>>
           /\ last'.method \in StoredMethods => paths'[last'.path][last'.method] # <<>>
           /\ (last'.method \notin StoredMethods /\ TypeOf(last'.res).kind = "struct")
                => SchemaName(TypeOf(last'.res)) \in DOMAIN schemas'
    ]_vars

\* HEAD /u/:id registered after GET /u/:id: the GET operation is still the
\* only one of the path
C30_Witness ==
  /\ Registration(last) /\ last.status = "ok" /\ last.method = "HEAD"
  /\ Registration(prev) /\ prev.status = "ok" /\ prev.method = "GET"
  /\ prev.path = last.path
  /\ paths[last.path].GET # <<>>
  /\ \A m \in StoredMethods \ {"GET"} : paths[last.path][m] = <<>>

====
